---- MODULE Spec2Model ----
(***************************************************************************)
(* Model of steward's process layer (process.go): one publisher process    *)
(* and one subscriber process for one subject, talking over a NATS style   *)
(* broker.  The publisher loop (publishMessages / messageDeliverNats) and  *)
(* the per delivery subscriber goroutines (subscriberHandler) are modelled *)
(* statement block by statement block; every blocking broker or channel    *)
(* call is a separate action so that the goroutines interleave as in Go.   *)
(***************************************************************************)
EXTENDS Integers, Sequences, FiniteSets, Bags, TLC

\* ------------------------------------------------------------------ bounds
\* Number of messages the ring buffer hands to the publisher.
MaxMsgs == 2
\* Largest value of Message.Retries that is tried (0 means unlimited).
MaxRetries == 2
\* Cap on the iterations of the delivery loop in a run, over all messages;
\* the loop of the code is unbounded for Retries = 0 and for broker failures.
MaxIter == 3
\* Number of broker calls (SubscribeSync, PublishMsg) that fail in a run.
MaxFails == 1
\* Number of publishes the broker delivers to the subscriber; the
\* subscriber's connection is lost after that and later publishes are dropped.
MaxDeliveries == 1
\* Number of processes that are spawned.
MaxSpawns == 3
\* Number of messages an ingress reader reads at once, and the length of the
\* ToNodes list of a message.
MaxSlice == 2
MaxToNodes == 2
\* Number of messages in a file of the startup folder.
MaxStartup == 3
\* Number of calls of the ACL mutation API of central.
MaxAclOps == 3
\* Files in the startup folder.
MaxFiles == 2
\* Rounds of the procFunc of the hello publisher.
MaxHello == 2
\* Messages in flight up to which an emission of the error kernel succeeds.
MaxFlight == 2

\* ------------------------------------------------------- program constants
CommandACK == "CommandACK"
CommandNACK == "CommandNACK"
EventACK == "EventACK"
EventNACK == "EventNACK"
CommandOrEvent == {CommandACK, CommandNACK, EventACK, EventNACK}

\* Node names the publishing server can have; the ingress readers stamp it
\* on every message as FromNode.
Nodes == {"central", "ship2"}
\* The allowedReceivers lists the subscriber process is created with.
AllowedReceiverLists == {{"*"}, {"central"}}
\* The nodes whose servers take part in the traffic between the nodes.
TrafficNodes == {"central", "ship1"}

\* The method of the modelled subject.
SubjectMethod == "REQCliCommand"
\* The subject of the modelled processes: <ToNode>.<Method>.<kind>.
SubjectName(k) == <<"ship1", SubjectMethod, k>>
\* Reply: fmt.Sprintf("reply.%s", proc.subject.name())
ReplySubject(k) == <<"reply">> \o SubjectName(k)

\* GetMethodsAvailable: the keys of the method table Methodhandlers.
Methodhandlers ==
    {"REQInitial", "REQOpProcessList", "REQOpProcessStart", "REQOpProcessStop",
     "REQCliCommand", "REQCliCommandCont", "REQToConsole", "REQTuiToConsole",
     "REQToFileAppend", "REQToFile", "REQToFileNACK", "REQCopyFileFrom",
     "REQCopyFileTo", "REQHello", "REQErrorLog", "REQPing", "REQPong",
     "REQHttpGet", "REQHttpGetScheduled", "REQTailFile", "REQRelay",
     "REQRelayInitial", "REQPublicKey", "REQKeysRequestUpdate",
     "REQKeysDeliverUpdate", "REQKeysAllow", "REQKeysDelete",
     "REQAclRequestUpdate", "REQAclDeliverUpdate", "REQAclAddCommand",
     "REQAclDeleteCommand", "REQAclDeleteSource", "REQAclGroupNodesAddNode",
     "REQAclGroupNodesDeleteNode", "REQAclGroupNodesDeleteGroup",
     "REQAclGroupCommandsAddCommand", "REQAclGroupCommandsDeleteCommand",
     "REQAclGroupCommandsDeleteGroup", "REQAclExport", "REQAclImport",
     "REQTest"}
\* GetMethodsAvailable: the keys whose handler is declared with
\* event: EventNACK; every other key is declared with event: EventACK.
MethodhandlersNACK ==
    {"REQToFileNACK", "REQHello", "REQKeysRequestUpdate",
     "REQKeysDeliverUpdate", "REQAclRequestUpdate", "REQAclDeliverUpdate"}

\* Message{}: the zero value of a message.
NoMsg == [n |-> 0, ID |-> 0, Retries |-> 0, FromNode |-> "", Method |-> ""]
\* The reply slot of a delivery that returned without a reply.
NoReply == [n |-> 0, d |-> 0, handled |-> FALSE, payload |-> <<>>]

\* gobEncodeMessage: the payload of a message on the wire.
gobEncodeMessage(msg) == <<"gob", msg>>
\* subscriberHandler, lines 189-198: decode the payload into a Message{};
\* a payload that is no encoded message leaves the zero value (the error is
\* only logged).
Decodes(data) == Len(data) = 2 /\ data[1] = "gob"
gobDecode(data) == IF Decodes(data) THEN data[2] ELSE NoMsg

\* Payloads a client other than the modelled publisher puts on the subject:
\* bytes that do not decode, and a message with a method that is not in the
\* method table of the subscriber.
ForeignPayloads ==
    {<<"garbage">>,
     gobEncodeMessage([n |-> 0, ID |-> 0, Retries |-> 0, FromNode |-> "ship2",
                       Method |-> "REQUnknown"])}

VARIABLES
    kind,             \* p.subject.CommandOrEvent of both processes
    nodeName,         \* s.nodeName of the publishing server
    allowedReceivers, \* p.allowedReceivers of the subscriber process
    deliveryCap,      \* number of deliveries after which the subscriber is cut off
    messageCh,        \* p.subject.messageCh: messages waiting for the publisher
    kv,               \* ring buffer: numbers of the messages still persisted
    nextN,            \* number of messages handed to the publisher so far
    pc,               \* position of the publisher goroutine
    m,                \* publishMessages: the message being delivered
    retryAttempts,    \* messageDeliverNats: retryAttempts
    iter,             \* messageDeliverNats: iterations of the for loop so far
    subReply,         \* messageDeliverNats: subReply (index in subs, 0 = none)
    messageID,        \* p.messageID of the publisher's copy of the process
    processes,        \* s.processes[pn].messageID of the registered process
    subs,             \* broker: reply subscriptions ever created and still live
    subscribed,       \* broker: the subscriber process has subscribed
    handlers,         \* subscriberHandler goroutines that have not returned
    nextD,            \* number of broker deliveries to the subscriber so far
    fails,            \* number of broker calls that have failed so far
    iters,            \* iterations of the delivery loop over all messages
    published,        \* log: successful broker publishes of the publisher
    result,           \* log: how messageDeliverNats returned, per message
    doneLog,          \* log: messages whose done channel got a signal
    errorCh,          \* log: errProcess values sent to the error kernel
    executed,         \* log: messages whose method handler was invoked
    newMessagesCh,    \* subscriber node: error log messages put on s.newMessagesCh
    panicked,         \* the subscriber's server died of a panic in a goroutine
    handlerLog,       \* log: the method handler invocations, in their order
    replyLog,         \* log: the replies the subscriber has published
    lastProcessID,    \* registry: s.lastProcessID
    serverProcesses,  \* registry: the map s.processes, by kind of process
    mu,               \* registry: the holder of s.mu, 0 when unlocked
    workers,          \* registry: the spawned processes, by processID
    routed,           \* registry: number of messages routed to a publisher
    assigned,         \* registry log: the IDs given to messages, in their order
    staleWrite,       \* registry log: a write-back replaced another process
    serverFatal,      \* registry: the runtime ended the server on a map race
    msgIn,            \* reader: the messages checkMessageToNodes is called with
    msgOut,           \* reader: the messages checkMessageToNodes has returned
    readerErrs,       \* reader: the messages sent to the error kernel
    readerPc,         \* reader: "read" before the call, then "done"
    ingPc,            \* ingress: position of the producer, "idle" before it has run
    ingOp,            \* ingress: the producer that has run
    ingIn,            \* ingress: the messages the producer was given
    toRingBufferCh,   \* ingress: the batches put on s.toRingBufferCh
    ingErrs,          \* ingress: number of errors sent to the error kernel
    ingPanic,         \* ingress: the producer ended in a runtime panic
    startupFiles,     \* startup: number of files of the folder not yet read
    startupSams,      \* startup: the sams of the file being read, after the filter
    startupI,         \* startup: index of the sam the handling loop is at
    startupP,         \* startup: the process p read from the map for that sam
    startupHandled,   \* startup: the sams of the file a handler was called for
    startupNil,       \* startup: errSend on the nil errorKernel of a zero process failed
    replyBuilt,       \* ingress: the newMsg built by newReplyMessage
    samOut,           \* ingress: the result of a call of newSubjectAndMessage
    fnIn,             \* file naming: the message and the data folder of the call
    fnOut,            \* file naming: the result, empty before the call
    sigIn,            \* signature: the node, the message and what its signature was made over
    sigOut,           \* signature: the result, empty before the call
    aclMap,           \* ACL: schemaMain.ACLMap, the (source, fromNode, command) entries
    nodeGroupMap,     \* ACL: schemaMain.NodeGroupMap, the (group, node) memberships
    commandGroupMap,  \* ACL: schemaMain.CommandGroupMap, the (group, command) memberships
    generatedACLsMap, \* ACL: schemaGenerated.GeneratedACLsMap, node -> Data and Hash
    aclOps,           \* ACL: number of calls of the mutation API so far
    aclLast,          \* ACL: the last call and the ACLMap it was made on
    ctxDone,          \* the context of the publisher worker has been cancelled
    ctxAt,            \* where the publisher was when its context was cancelled
    quiIn,            \* traffic: number of messages the ingress has put in
    quiCh,            \* traffic: per node, the bag of the sams on s.newMessagesCh
    quiHandlers,      \* traffic: the bag of the subscriberHandler goroutines that have not returned
    quiWait,          \* traffic: the publisher processes that are delivering a message
    quiFatal,         \* traffic: the nodes whose server the runtime ended on a map race
    quiErrQ           \* traffic: per node, the publishers that block in the send on errorCh

cfgVars == <<kind, nodeName, allowedReceivers, deliveryCap>>
inVars == <<messageCh, nextN>>
regVars == <<messageID, processes>>
loopVars == <<retryAttempts, iter, subReply>>
envVars == <<fails, iters>>
ackLogs == <<doneLog, errorCh>>
subLogs == <<executed, newMessagesCh, panicked, handlerLog, replyLog>>
\* The state of the parts of the server that are modelled further below.
regAux == <<lastProcessID, serverProcesses, mu, workers, routed, assigned,
            staleWrite, serverFatal>>
readerVars == <<msgIn, msgOut, readerErrs, readerPc>>
startVars == <<startupFiles, startupSams, startupI, startupP, startupHandled,
               startupNil>>
ingVars == <<ingPc, ingOp, ingIn, toRingBufferCh, ingErrs, ingPanic,
             replyBuilt, samOut, startVars>>
pureVars == <<fnIn, fnOut, sigIn, sigOut>>
aclVars == <<aclMap, nodeGroupMap, commandGroupMap, generatedACLsMap, aclOps,
             aclLast>>
ctxVars == <<ctxDone, ctxAt>>
quiVars == <<quiIn, quiCh, quiHandlers, quiWait, quiFatal, quiErrQ>>
lateVars == <<aclVars, ctxVars, quiVars>>
auxVars == <<regAux, readerVars, ingVars, pureVars, lateVars>>

procVars == <<cfgVars, inVars, kv, pc, m, regVars, loopVars, subs, subscribed,
              handlers, nextD, envVars, published, result, ackLogs, subLogs>>
vars == <<procVars, auxVars>>

IsACK(k) == k = CommandACK \/ k = EventACK
IsNACK(k) == k = CommandNACK \/ k = EventNACK

InitProcesses(cap) ==
    /\ kind \in CommandOrEvent
    /\ nodeName \in Nodes
    /\ allowedReceivers \in AllowedReceiverLists
    /\ deliveryCap = cap
    /\ messageCh = <<>>
    /\ kv = {}
    /\ nextN = 0
    /\ pc = "recv"
    /\ m = NoMsg
    /\ retryAttempts = 0
    /\ iter = 0
    /\ subReply = 0
    /\ messageID = 0
    /\ processes = 0
    /\ subs = <<>>
    /\ subscribed = FALSE
    /\ handlers = {}
    /\ nextD = 0
    /\ fails = 0
    /\ iters = 0
    /\ published = <<>>
    /\ result = <<>>
    /\ doneLog = <<>>
    /\ errorCh = <<>>
    /\ executed = {}
    /\ newMessagesCh = 0
    /\ panicked = FALSE
    /\ handlerLog = <<>>
    /\ replyLog = <<>>

\* processKind
processKindPublisher == "publisher"
processKindSubscriber == "subscriber"
ProcessKinds == {processKindPublisher, processKindSubscriber}
\* The zero value of a process, which a lookup of a missing key returns.
NoProcess == [processID |-> 0, messageID |-> 0]

\* The registry of a server before any process is spawned.
InitRegistry ==
    /\ lastProcessID = 0
    /\ serverProcesses = [k \in ProcessKinds |-> NoProcess]
    /\ mu = 0
    /\ workers = <<>>
    /\ routed = 0
    /\ assigned = <<>>
    /\ staleWrite = FALSE
    /\ serverFatal = FALSE

\* An ingress reader that has read the messages in.
InitReader(in) ==
    /\ msgIn = in
    /\ msgOut = <<>>
    /\ readerErrs = <<>>
    /\ readerPc = "read"

\* No ingress producer has run yet.
InitIngress ==
    /\ ingPc = "idle"
    /\ ingOp = ""
    /\ ingIn = <<>>
    /\ toRingBufferCh = <<>>
    /\ ingErrs = 0
    /\ ingPanic = FALSE
    /\ replyBuilt = <<>>
    /\ samOut = <<>>
    /\ startupFiles = 0
    /\ startupSams = <<>>
    /\ startupI = 0
    /\ startupP = NoProcess
    /\ startupHandled = <<>>
    /\ startupNil = FALSE

\* The inputs of the file naming and of the signature check.
InitPure(fm, sm) ==
    /\ fnIn = fm
    /\ fnOut = <<>>
    /\ sigIn = sm
    /\ sigOut = <<>>

\* The schemas of a central that has no ACL yet (newCentralAuth), with the
\* node groups and command groups that have been filled so far.
InitACL(ngm, cgm) ==
    /\ aclMap = {}
    /\ nodeGroupMap = ngm
    /\ commandGroupMap = cgm
    /\ generatedACLsMap = <<>>
    /\ aclOps = 0
    /\ aclLast = <<>>

\* The context of the publisher worker is live, and no traffic is under way.
InitTrafficIdle ==
    /\ ctxDone = FALSE
    /\ ctxAt = <<>>
    /\ quiIn = 0
    /\ quiCh = [nd \in TrafficNodes |-> EmptyBag]
    /\ quiHandlers = EmptyBag
    /\ quiWait = {}
    /\ quiFatal = {}
    /\ quiErrQ = [nd \in TrafficNodes |-> <<>>]
InitLate == InitACL({}, {}) /\ InitTrafficIdle

\* The parts of the server that a specification leaves alone.
InitIdle == InitIngress /\ InitPure(<<>>, <<>>) /\ InitLate

Init ==
    /\ InitProcesses(MaxDeliveries) /\ InitRegistry /\ InitReader(<<>>)
    /\ InitIdle

\* ---------------------------------------------------------------- ingress
\* The ring buffer persists an accepted message, which carries the node
\* name of this server as FromNode, and puts it on the messageCh of the
\* publisher of its subject.
RouteMessage(r) ==
    /\ nextN < MaxMsgs
    /\ nextN' = nextN + 1
    /\ messageCh' = Append(messageCh,
                           [n |-> nextN + 1, ID |-> 0, Retries |-> r,
                            FromNode |-> nodeName, Method |-> SubjectMethod])
    /\ kv' = kv \cup {nextN + 1}
    /\ UNCHANGED <<auxVars, cfgVars, pc, m, regVars, loopVars, subs, subscribed, handlers,
                   nextD, envVars, published, result, ackLogs, subLogs>>

\* -------------------------------------------------------------- publisher
\* A receive that yields the message sent last instead of the oldest one.
NextMessageNewest(ch) == ch[Len(ch)]

\* publishMessages, line 288: the message the receive on messageCh yields.
NextMessage(ch) == Head(ch)

\* publishMessages, lines 288-291: take the next message, give it the ID of
\* the registered process and enter messageDeliverNats (retryAttempts := 0).
publishMessagesRecv ==
    /\ pc = "recv"
    /\ messageCh # <<>>
    /\ m' = [NextMessage(messageCh) EXCEPT !.ID = processes]
    /\ messageCh' = SelectSeq(messageCh, LAMBDA x : x # NextMessage(messageCh))
    /\ retryAttempts' = 0
    /\ iter' = 0
    /\ subReply' = 0
    /\ pc' = "loop"
    /\ UNCHANGED <<auxVars, cfgVars, nextN, kv, regVars, subs, subscribed, handlers, nextD,
                   envVars, published, result, ackLogs, subLogs>>

\* A delivery loop that publishes although the reply subscribe failed.
AfterSubscribeNoContinue(ok) == "publish"

\* messageDeliverNats, lines 131-135: where the loop goes after SubscribeSync.
AfterSubscribe(ok) == IF ok THEN "publish" ELSE "loop"

\* messageDeliverNats, lines 111-135: encode the message, build the nats.Msg
\* and create a subscription on the reply subject; on an error `continue`.
\* The subscription is appended to the broker's live subscriptions.
SubscribeSync(ok) ==
    /\ pc = "loop"
    /\ iters < MaxIter
    /\ ok \/ fails < MaxFails
    /\ iter' = iter + 1
    /\ iters' = iters + 1
    /\ IF ok
       THEN /\ subs' = Append(subs, [subject |-> ReplySubject(kind), n |-> m.n,
                                     iter |-> iter + 1, queue |-> <<>>])
            /\ subReply' = Len(subs) + 1
            /\ fails' = fails
       ELSE /\ subs' = subs
            /\ subReply' = 0
            /\ fails' = fails + 1
    /\ pc' = AfterSubscribe(ok)
    /\ UNCHANGED <<auxVars, cfgVars, inVars, kv, m, regVars, retryAttempts, subscribed,
                   handlers, nextD, published, result, ackLogs, subLogs>>

\* A delivery loop that waits for a reply on CommandACK subjects only.
WaitsForReplyCommandOnly(k) == k = CommandACK

\* messageDeliverNats, lines 144-147 and 173: only an ACK kind of subject
\* waits for a reply, every other kind returns right after the publish.
WaitsForReply(k) == k = CommandACK \/ k = EventACK

\* The subscription the publish is made under is the one created in this
\* iteration of the loop for this message.
SubscribedThisIteration ==
    /\ subReply \in 1..Len(subs)
    /\ subs[subReply].n = m.n
    /\ subs[subReply].iter = iter

\* messageDeliverNats, lines 137-147 and 173: PublishMsg; on an error
\* `continue`.  The broker hands a published message to the subscriber's
\* callback when the subscriber is subscribed (subscribeMessages, line 278:
\* one goroutine per delivery) and drops it otherwise.
PublishMsg(ok) ==
    /\ pc = "publish"
    /\ ok \/ fails < MaxFails
    /\ fails' = IF ok THEN fails ELSE fails + 1
    /\ IF ok
       THEN /\ published' = Append(published,
                                   [n |-> m.n, ID |-> m.ID, Retries |-> m.Retries,
                                    iter |-> iter, retryAttempts |-> retryAttempts,
                                    subOK |-> SubscribedThisIteration])
            /\ IF subscribed /\ nextD < deliveryCap
               THEN /\ handlers' = handlers \cup
                                   {[d |-> nextD + 1, data |-> gobEncodeMessage(m),
                                     reply |-> ReplySubject(kind), pc |-> "start",
                                     out |-> NoReply]}
                    /\ nextD' = nextD + 1
               ELSE UNCHANGED <<handlers, nextD>>
            /\ IF WaitsForReply(kind)
               THEN /\ pc' = "wait"
                    /\ result' = result
               ELSE /\ pc' = "done"
                    /\ result' = Append(result,
                                        [n |-> m.n, Retries |-> m.Retries, how |-> "sent",
                                         reply |-> NoReply,
                                         retryAttempts |-> retryAttempts])
       ELSE /\ pc' = "loop"
            /\ UNCHANGED <<handlers, nextD, published, result>>
    /\ UNCHANGED <<auxVars, cfgVars, inVars, kv, m, regVars, loopVars, iters, subs,
                   subscribed, ackLogs, subLogs>>

\* messageDeliverNats, lines 151 and 171-173: NextMsg returns a reply that is
\* pending on the subscription; the delivery loop returns.
NextMsgReply ==
    /\ pc = "wait"
    /\ subs[subReply].queue # <<>>
    /\ subs' = [subs EXCEPT ![subReply].queue = Tail(@)]
    /\ result' = Append(result,
                        [n |-> m.n, Retries |-> m.Retries, how |-> "ack",
                         reply |-> Head(subs[subReply].queue),
                         retryAttempts |-> retryAttempts])
    /\ pc' = "done"
    /\ UNCHANGED <<auxVars, cfgVars, inVars, kv, m, regVars, loopVars, subscribed, handlers,
                   nextD, envVars, published, ackLogs, subLogs>>

\* A switch that gives up one attempt late.
RetryDecisionOffByOne(ra, r) ==
    IF r = 0 THEN "continue"
    ELSE IF ra > r THEN "return"
    ELSE "continue"

\* A switch without the case for unlimited retries.
RetryDecisionNoUnlimited(ra, r) ==
    IF ra >= r THEN "return" ELSE "continue"

\* messageDeliverNats, lines 158-169: the switch on Retries once a reply
\* wait has failed and retryAttempts has been incremented to ra.
RetryDecision(ra, r) ==
    IF r = 0 THEN "continue"
    ELSE IF ra >= r THEN "return"
    ELSE "continue"

\* messageDeliverNats, lines 151-170: NextMsg times out (nothing is pending
\* on the subscription): count the attempt and republish or give up.
NextMsgTimeout ==
    /\ pc = "wait"
    /\ subs[subReply].queue = <<>>
    /\ retryAttempts' = retryAttempts + 1
    /\ IF RetryDecision(retryAttempts + 1, m.Retries) = "return"
       THEN /\ pc' = "done"
            /\ result' = Append(result,
                                [n |-> m.n, Retries |-> m.Retries,
                                 how |-> "maxretries", reply |-> NoReply,
                                 retryAttempts |-> retryAttempts + 1])
       ELSE /\ pc' = "loop"
            /\ result' = result
    /\ UNCHANGED <<auxVars, cfgVars, inVars, kv, m, regVars, iter, subReply, subs,
                   subscribed, handlers, nextD, envVars, published, ackLogs,
                   subLogs>>

\* The ring buffer, which receives the done signal of a message, deletes the
\* persisted record of that message.
RingBufferDelete(records, n) == records \ {n}

\* A publisher that signals done for a message it gave up only.
DoneSignalsIfAbandoned(log, res, n) ==
    IF res # <<>> /\ res[Len(res)].how = "maxretries"
    THEN Append(log, n) ELSE log
\* publishMessages, line 292: m.done <- struct{}{}, whatever way the
\* delivery has returned (res is the log of the returns).
DoneSignals(log, res, n) == Append(log, n)

\* publishMessages, lines 292-297: signal done for the message (the send
\* returns when the ring buffer has received it), increment the message
\* counter and store the process back in the registry.
publishMessagesDone ==
    /\ pc = "done"
    /\ doneLog' = DoneSignals(doneLog, result, m.n)
    /\ kv' = RingBufferDelete(kv, m.n)
    /\ messageID' = messageID + 1
    /\ processes' = messageID + 1
    /\ pc' = "errkernel"
    /\ UNCHANGED <<auxVars, cfgVars, inVars, m, loopVars, subs, subscribed, handlers, nextD,
                   envVars, published, result, errorCh, subLogs>>

\* publishMessages, lines 299-307: send an errProcess for the message on
\* the channel of the error kernel; the publisher then waits for the action
\* on ep.errorActionCh, which is unbuffered.
publishMessagesError ==
    /\ pc = "errkernel"
    /\ errorCh' = Append(errorCh, [infoText |-> "process failed", n |-> m.n])
    /\ pc' = "erraction"
    /\ UNCHANGED <<auxVars, cfgVars, inVars, kv, m, regVars, loopVars, subs, subscribed,
                   handlers, nextD, envVars, published, result, doneLog, subLogs>>

\* publishMessages, lines 309-315: the error kernel sends its action on
\* ep.errorActionCh and the publisher receives it; whatever the action is,
\* the switch falls through and the loop goes back to the receive.  The
\* publisher stays here for as long as the error kernel does not answer.
publishMessagesErrorAction ==
    /\ pc = "erraction"
    /\ pc' = "recv"
    /\ UNCHANGED <<auxVars, cfgVars, inVars, kv, m, regVars, loopVars, subs, subscribed,
                   handlers, nextD, envVars, published, result, ackLogs, subLogs>>

\* ------------------------------------------------------------- subscriber
\* subscribeMessages, lines 272-283: the subscriber process subscribes to
\* the subject; from then on the broker delivers publishes to its callback.
subscribeMessages ==
    /\ ~subscribed
    /\ ~panicked
    /\ subscribed' = TRUE
    /\ UNCHANGED <<auxVars, cfgVars, inVars, kv, pc, m, regVars, loopVars, subs,
                   handlers, nextD, envVars, published, result, ackLogs, subLogs>>

\* Another client of the broker publishes a payload on the subject of the
\* subscriber, with the reply subject of the subject.
ForeignPublish(data) ==
    /\ subscribed
    /\ nextD < deliveryCap
    /\ handlers' = handlers \cup
                   {[d |-> nextD + 1, data |-> data, reply |-> ReplySubject(kind),
                     pc |-> "start", out |-> NoReply]}
    /\ nextD' = nextD + 1
    /\ UNCHANGED <<auxVars, cfgVars, inVars, kv, pc, m, regVars, loopVars, subs,
                   subscribed, envVars, published, result, ackLogs, subLogs>>

\* A subscriber that takes every sender for allowed.
AllowedFromAny(ar, f) == TRUE
\* subscriberHandler, lines 216-220: are we allowed to receive from f.
AllowedFrom(ar, f) == f \in ar \/ "*" \in ar

\* MethodsAvailable.CheckIfExists: is there a handler for the method.
CheckIfExists(mth) == mth \in Methodhandlers

\* subscriberHandler, line 213: the reply payload of a rejected sender.
NotAllowedPayload(f) == <<"not allowed from ", f>>
\* The bytes the method handler returns for a message.
HandlerOutput(msg) == <<"out", msg.n, msg.ID>>

\* subscriberHandler, lines 225 and 259: mf.handler(...) is called.  With a
\* handler from the method table the method runs; mf is nil when the method
\* is not in the table, and the call through it is a nil dereference, which
\* ends the server of the subscriber and all its goroutines.
HandlerCall(h, message, next) ==
    IF CheckIfExists(message.Method)
    THEN /\ executed' = executed \cup {message.n}
         /\ handlerLog' = Append(handlerLog,
                                [d |-> h.d, n |-> message.n, data |-> h.data])
         /\ handlers' = (handlers \ {h}) \cup next
         /\ UNCHANGED <<subscribed, panicked>>
    ELSE /\ panicked' = TRUE
         /\ subscribed' = FALSE
         /\ handlers' = {}
         /\ UNCHANGED <<executed, handlerLog>>

\* subscriberHandler, lines 189-233 and 244-264: decode the message and run
\* the method handler.  On an ACK kind of subject the handler is invoked
\* when the sender is allowed and the reply payload is its output, else the
\* payload is "not allowed from <FromNode>"; on a NACK kind of subject the
\* handler is invoked and the goroutine returns.
subscriberHandlerRun(h) ==
    /\ h \in handlers
    /\ h.pc = "start"
    /\ LET message == gobDecode(h.data)
       IN  IF IsACK(kind)
           THEN IF AllowedFrom(allowedReceivers, message.FromNode)
                THEN HandlerCall(h, message,
                         {[h EXCEPT !.pc = "reply",
                                    !.out = [n |-> message.n, d |-> h.d,
                                             handled |-> TRUE,
                                             payload |-> HandlerOutput(message)]]})
                ELSE /\ handlers' = (handlers \ {h}) \cup
                            {[h EXCEPT !.pc = "reply",
                                       !.out = [n |-> message.n, d |-> h.d,
                                                handled |-> FALSE,
                                                payload |->
                                                    NotAllowedPayload(message.FromNode)]]}
                     /\ UNCHANGED <<executed, handlerLog, subscribed, panicked>>
           ELSE IF IsNACK(kind)
                THEN HandlerCall(h, message, {})
                ELSE /\ handlers' = handlers \ {h}
                     /\ UNCHANGED <<executed, handlerLog, subscribed, panicked>>
    /\ UNCHANGED <<auxVars, cfgVars, inVars, kv, pc, m, regVars, loopVars, subs,
                   nextD, envVars, published, result, ackLogs, newMessagesCh,
                   replyLog>>

\* subscriberHandler, lines 235-236: publish the reply payload on msg.Reply,
\* which the broker queues on every live subscription of that subject.
subscriberHandlerReply(h) ==
    /\ h \in handlers
    /\ h.pc = "reply"
    /\ subs' = [i \in 1..Len(subs) |->
                   IF subs[i].subject = h.reply
                   THEN [subs[i] EXCEPT !.queue = Append(@, h.out)]
                   ELSE subs[i]]
    /\ replyLog' = Append(replyLog, [d |-> h.d, data |-> h.data,
                                     payload |-> h.out.payload])
    /\ handlers' = (handlers \ {h}) \cup {[h EXCEPT !.pc = "errlog"]}
    /\ UNCHANGED <<auxVars, cfgVars, inVars, kv, pc, m, regVars, loopVars,
                   subscribed, nextD, envVars, published, result, ackLogs,
                   executed, newMessagesCh, panicked, handlerLog>>

\* subscriberHandler, lines 238-243: sendErrorLogMessage hands an error log
\* message over on s.newMessagesCh (the send returns when the reader of the
\* channel has taken it), and the goroutine returns.
subscriberHandlerErrorLog(h) ==
    /\ h \in handlers
    /\ h.pc = "errlog"
    /\ newMessagesCh' = newMessagesCh + 1
    /\ handlers' = handlers \ {h}
    /\ UNCHANGED <<auxVars, cfgVars, inVars, kv, pc, m, regVars, loopVars, subs,
                   subscribed, nextD, envVars, published, result, ackLogs,
                   executed, panicked, handlerLog, replyLog>>

\* The context of the publisher worker is cancelled while the worker is
\* blocked in the receive on messageCh (line 288), in SubscribeSync (line
\* 131) or in NextMsg (line 151).  No statement of publishMessages or
\* messageDeliverNats reads a context, so the worker is left where it is.
ctxCancel ==
    /\ ~ctxDone
    /\ \/ pc = "recv" /\ messageCh = <<>>
       \/ pc = "loop"
       \/ pc = "wait"
    /\ ctxDone' = TRUE
    /\ ctxAt' = [pc |-> pc, n |-> IF pc = "recv" THEN 0 ELSE m.n,
                 published |-> Len(published)]
    /\ UNCHANGED <<procVars, regAux, readerVars, ingVars, pureVars, aclVars,
                   quiVars>>

Next ==
    \/ \E r \in 0..MaxRetries : RouteMessage(r)
    \/ publishMessagesRecv
    \/ \E ok \in BOOLEAN : SubscribeSync(ok)
    \/ \E ok \in BOOLEAN : PublishMsg(ok)
    \/ NextMsgReply
    \/ NextMsgTimeout
    \/ publishMessagesDone
    \/ publishMessagesError
    \/ publishMessagesErrorAction
    \/ subscribeMessages
    \/ \E h \in handlers : subscriberHandlerRun(h)
    \/ \E h \in handlers : subscriberHandlerReply(h)
    \/ \E h \in handlers : subscriberHandlerErrorLog(h)

Spec == Init /\ [][Next]_vars

\* The same system with the publisher on central and a subscriber that is
\* allowed to receive from every node (allowedReceivers = ["*"], as the
\* REQOpCommand subscriber is started).
InitAllowAll == Init /\ nodeName = "central" /\ allowedReceivers = {"*"}
SpecAllowAll == InitAllowAll /\ [][Next]_vars

\* The same system on a subject that other clients publish on too, with a
\* subscriber that takes one delivery more.
InitOpen ==
    /\ InitProcesses(MaxDeliveries + 1) /\ InitRegistry /\ InitReader(<<>>)
    /\ InitIdle
    /\ nodeName = "ship2"
NextOpen ==
    \/ Next
    \/ \E data \in ForeignPayloads : ForeignPublish(data)
SpecOpen == InitOpen /\ [][NextOpen]_vars

\* The same system with a worker context that is cancelled at some time.
NextCancel ==
    \/ Next
    \/ ctxCancel
SpecCancel == InitAllowAll /\ [][NextCancel]_vars

\* The subscriber process by itself: the broker delivers what the clients
\* of the subject publish, messages of the nodes with the method of the
\* subject among them, and every delivery gets its subscriberHandler.
SubscriberPayloads ==
    ForeignPayloads \cup
        {gobEncodeMessage([n |-> 1, ID |-> 0, Retries |-> 1, FromNode |-> f,
                           Method |-> SubjectMethod]) : f \in Nodes}
NextSubscriber ==
    \/ subscribeMessages
    \/ \E data \in SubscriberPayloads : ForeignPublish(data)
    \/ \E h \in handlers : subscriberHandlerRun(h)
    \/ \E h \in handlers : subscriberHandlerReply(h)
    \/ \E h \in handlers : subscriberHandlerErrorLog(h)
SpecSubscriber == InitOpen /\ [][NextSubscriber]_vars

TypeOK ==
    /\ kind \in CommandOrEvent
    /\ pc \in {"recv", "loop", "publish", "wait", "done", "errkernel",
              "erraction"}
    /\ retryAttempts \in 0..MaxIter
    /\ subReply \in 0..Len(subs)
    /\ iter <= iters

\* ------------------------------------------------------------ the claims
\* Number of successful broker publishes of message n.
PublishCount(n) == Cardinality({i \in 1..Len(published) : published[i].n = n})
\* messageDeliverNats returned for message n because a reply was received.
Acked(n) == \E j \in 1..Len(result) : result[j].n = n /\ result[j].how = "ack"
\* messageDeliverNats returned for message n with its retry attempts at
\* Retries or above.
Exhausted(n) ==
    \E j \in 1..Len(result) :
        result[j].n = n /\ result[j].retryAttempts >= result[j].Retries
\* The done channel of message n got a signal.
Done(n) == \E i \in 1..Len(doneLog) : doneLog[i] = n

\* C1: a message on an ACK kind of subject with Retries = R >= 1 is
\* published at most R times, and exactly once when the first wait for a
\* reply returned a reply.
C1_PublishesAtMostRetries ==
    IsACK(kind) =>
        /\ \A i \in 1..Len(published) :
               published[i].Retries >= 1 =>
                   PublishCount(published[i].n) <= published[i].Retries
        /\ \A j \in 1..Len(result) :
               (result[j].Retries >= 1 /\ result[j].how = "ack"
                    /\ result[j].retryAttempts = 0) =>
                   PublishCount(result[j].n) = 1

\* C1 witness: one message was given up after Retries = 2 publishes and
\* another one was acknowledged on its first publish.
C1_Witness ==
    /\ IsACK(kind)
    /\ \E j, k \in 1..Len(result) :
           /\ result[j].how = "maxretries" /\ result[j].Retries = 2
           /\ PublishCount(result[j].n) = 2
           /\ result[k].how = "ack" /\ result[k].Retries >= 1
           /\ result[k].retryAttempts = 0 /\ PublishCount(result[k].n) = 1

\* The infoText of the error the claim expects for an abandoned message.
ErrMaxRetries == "max retries"

\* C2: an ACK message with Retries = R >= 1 that got no reply is published
\* exactly R times, and once the publisher has reported to the error kernel
\* the kernel has got a max-retries error for it, the message is marked done
\* and its record is deleted.
C2_MaxRetriesSurfaced ==
    \A j \in 1..Len(result) :
        (IsACK(kind) /\ result[j].how = "maxretries" /\ result[j].Retries >= 1
             /\ \E e \in 1..Len(errorCh) : errorCh[e].n = result[j].n) =>
            /\ PublishCount(result[j].n) = result[j].Retries
            /\ Done(result[j].n)
            /\ result[j].n \notin kv
            /\ \E e \in 1..Len(errorCh) :
                   errorCh[e].n = result[j].n /\ errorCh[e].infoText = ErrMaxRetries

\* C3: for an ACK message with Retries = 0 the delivery loop returns, and
\* the message is marked done, only after a reply has been received; a
\* reply wait that times out always leads to another iteration.
C3_UnlimitedRetries ==
    IsACK(kind) =>
        /\ \A j \in 1..Len(result) :
               result[j].Retries = 0 => result[j].how = "ack"
        /\ (m.Retries = 0 /\ pc \in {"done", "errkernel", "erraction"}) => Acked(m.n)
        /\ (m.Retries = 0 /\ pc \in {"loop", "publish", "wait"}) => ~Done(m.n)

\* C3 witness: a message with Retries = 0 was republished after two
\* timeouts and then acknowledged.
C3_Witness ==
    /\ IsACK(kind)
    /\ \E j \in 1..Len(result) :
           /\ result[j].Retries = 0 /\ result[j].how = "ack"
           /\ result[j].retryAttempts >= 2
           /\ PublishCount(result[j].n) >= 3
           /\ Done(result[j].n)

\* C4: on a NACK kind of subject the publisher creates no reply
\* subscription and publishes each message exactly once.
C4_NackNoSubscription ==
    IsNACK(kind) =>
        /\ Len(subs) = 0
        /\ \A j \in 1..Len(result) : PublishCount(result[j].n) = 1

\* C5 as claimed: for a message of any kind, the done signal is sent and
\* the persisted record is deleted only after a reply has been received or
\* the retry attempts have reached Retries.
C5_DoneOnlyAfterAckOrRetries ==
    \A n \in 1..nextN :
        (Done(n) \/ n \notin kv) => (Acked(n) \/ Exhausted(n))

\* C5 as amended: on an ACK kind of subject the done signal is sent and the
\* record deleted only after the reply wait returned a reply or the retry
\* attempts have reached Retries >= 1; on a NACK kind of subject only after
\* the one successful publish of the message.
C5_DoneOnlyAfterDelivery ==
    \A n \in 1..nextN :
        (Done(n) \/ n \notin kv) =>
            /\ IsACK(kind) =>
                   \/ Acked(n)
                   \/ \E j \in 1..Len(result) :
                          /\ result[j].n = n /\ result[j].how = "maxretries"
                          /\ result[j].Retries >= 1
                          /\ result[j].retryAttempts >= result[j].Retries
            /\ IsNACK(kind) =>
                   /\ PublishCount(n) = 1
                   /\ \E j \in 1..Len(result) :
                          result[j].n = n /\ result[j].how = "sent"

\* C5 witness: the record of an acknowledged message of an EventACK subject
\* has been deleted while a later message is still persisted.
C5_Witness ==
    /\ kind = EventACK
    /\ \E n \in 1..nextN : Done(n) /\ n \notin kv /\ Acked(n)
    /\ kv # {}

\* C6: every message the publisher records as acknowledged was handled by
\* the method handler on the subscriber before the accepted reply was sent:
\* the accepted reply is the reply to a delivery of that message and was
\* sent after the handler had run for it.
C6_AckedImpliesExecuted ==
    \A j \in 1..Len(result) :
        result[j].how = "ack" =>
            /\ result[j].reply.n = result[j].n
            /\ result[j].reply.handled
            /\ result[j].n \in executed

\* C7: a broker failure counts as a retry attempt, so the delivery loop of a
\* message with Retries = R >= 1 runs at most R iterations.
C7_BrokerFailureCounts ==
    (pc \in {"loop", "publish", "wait", "done"} /\ m.Retries >= 1) =>
        /\ iter <= m.Retries
        /\ pc = "loop" => retryAttempts = iter

\* C8: the publisher holds at most one live reply subscription, and none
\* between two attempts or after the delivery loop has returned.
C8_ReplySubscriptionReleased ==
    /\ Len(subs) <= 1
    /\ pc \in {"recv", "loop", "done", "errkernel", "erraction"} =>
           Len(subs) = 0

\* C9: every publish is made in an iteration whose reply subscription has
\* been created before, and the publisher is never about to publish in an
\* iteration whose subscribe failed.
C9_SubscribeBeforePublish ==
    /\ pc \in {"publish", "wait"} => SubscribedThisIteration
    /\ \A i \in 1..Len(published) : published[i].subOK

\* C9 witness: a message was published in a later iteration after a broker
\* call of an earlier iteration had failed.
C9_Witness ==
    \E i \in 1..Len(published) :
        /\ published[i].subOK
        /\ published[i].retryAttempts = 0
        /\ published[i].iter >= 2

\* C10: the messages are published in the order they were put on messageCh,
\* a message is published only when the delivery loop of every earlier
\* message has returned, and all publishes of a message carry the same ID.
C10_SerialEmission ==
    /\ \A i, j \in 1..Len(published) :
           /\ i < j => published[i].n <= published[j].n
           /\ published[i].n = published[j].n => published[i].ID = published[j].ID
    /\ \A i \in 1..Len(published) :
           \A k \in 1..(published[i].n - 1) :
               \E j \in 1..Len(result) : result[j].n = k
    /\ pc \in {"loop", "publish", "wait"} =>
           \A k \in 1..(m.n - 1) : \E j \in 1..Len(result) : result[j].n = k

\* C10 witness: the first message was published twice and the second one
\* after it.
C10_Witness ==
    /\ Len(published) >= 3
    /\ published[1].n = 1 /\ published[2].n = 1
    /\ published[Len(published)].n = 2

\* --------------------------------------------------------------- registry
\* The process registry with the workers as they are spawned: every spawned
\* process is a worker with its own copy p of the process value.
NoAssigned == [n |-> 0, ID |-> 0]

\* The next step of worker i is an access of the map s.processes.
MapAccess(i) == workers[i].pc \in {"register", "assign", "writeback"}
MapWrite(i) == workers[i].pc \in {"register", "writeback"}
\* Workers i and j are about to access the map with nothing that orders the
\* two accesses, and one of them writes.
ConflictingAccess(i, j) ==
    /\ i # j
    /\ MapAccess(i) /\ MapAccess(j)
    /\ MapWrite(i) \/ MapWrite(j)
\* The map access of worker i runs together with a conflicting one: the
\* runtime may detect it and end the program.
MapRace(i) == \E j \in 1..Len(workers) : ConflictingAccess(i, j)

\* newProcess, lines 45-66, and the call of spawnWorker on the new process.
newProcess(k) ==
    /\ ~serverFatal
    /\ lastProcessID < MaxSpawns
    /\ lastProcessID' = lastProcessID + 1
    /\ workers' = Append(workers, [processKind |-> k, pc |-> "lock",
                                   messageID |-> 0, m |-> NoAssigned,
                                   ch |-> <<>>])
    /\ UNCHANGED <<serverProcesses, mu, routed, assigned, staleWrite,
                   serverFatal, procVars, readerVars,
                   ingVars, pureVars, lateVars>>

\* spawnWorker, line 88: s.mu.Lock().
spawnWorkerLock(i) ==
    /\ ~serverFatal
    /\ workers[i].pc = "lock"
    /\ mu = 0
    /\ mu' = i
    /\ workers' = [workers EXCEPT ![i].pc = "register"]
    /\ UNCHANGED <<lastProcessID, serverProcesses, routed, assigned, staleWrite,
                   serverFatal, procVars, readerVars,
                   ingVars, pureVars, lateVars>>

\* spawnWorker, lines 89-102: s.processes[pn] = p, unlock, and start the
\* worker of the kind of the process.
spawnWorkerRegister(i) ==
    /\ ~serverFatal
    /\ workers[i].pc = "register"
    /\ \/ /\ serverProcesses' =
                 [serverProcesses EXCEPT ![workers[i].processKind] =
                      [processID |-> i, messageID |-> workers[i].messageID]]
          /\ mu' = 0
          /\ workers' = [workers EXCEPT ![i].pc =
                            IF workers[i].processKind = processKindPublisher
                            THEN "recv" ELSE "subscribed"]
          /\ UNCHANGED serverFatal
       \/ /\ MapRace(i)
          /\ serverFatal' = TRUE
          /\ UNCHANGED <<serverProcesses, mu, workers>>
    /\ UNCHANGED <<lastProcessID, routed, assigned, staleWrite, procVars,
                   readerVars, ingVars, pureVars, lateVars>>

\* Routing: the next message goes to the messageCh of the publisher process
\* that is registered for the subject.
routeToProcess ==
    /\ ~serverFatal
    /\ routed < MaxMsgs
    /\ serverProcesses[processKindPublisher].processID # 0
    /\ routed' = routed + 1
    /\ workers' = [workers EXCEPT
                      ![serverProcesses[processKindPublisher].processID].ch =
                          Append(@, routed + 1)]
    /\ UNCHANGED <<lastProcessID, serverProcesses, mu, assigned, staleWrite,
                   serverFatal, procVars, readerVars,
                   ingVars, pureVars, lateVars>>

\* publishMessages, line 288: m := <-p.subject.messageCh.
publishTake(i) ==
    /\ ~serverFatal
    /\ workers[i].pc = "recv"
    /\ workers[i].ch # <<>>
    /\ workers' = [workers EXCEPT ![i].pc = "assign",
                                  ![i].m = [n |-> Head(workers[i].ch), ID |-> 0],
                                  ![i].ch = Tail(workers[i].ch)]
    /\ UNCHANGED <<lastProcessID, serverProcesses, mu, routed, assigned,
                   staleWrite, serverFatal, procVars, readerVars,
                   ingVars, pureVars, lateVars>>

\* The registry entry a worker writes back after its increment.
WrittenBack(i) == [processID |-> i, messageID |-> workers[i].messageID + 1]

\* publishMessages, lines 289-292: m.ID = s.processes[pn].messageID, read
\* without s.mu, then the delivery of the message and the done signal.
publishAssignID(i) ==
    /\ ~serverFatal
    /\ workers[i].pc = "assign"
    /\ \/ /\ workers' = [workers EXCEPT
                            ![i].pc = "writeback",
                            ![i].m.ID =
                                serverProcesses[processKindPublisher].messageID]
          /\ assigned' = Append(assigned,
                 [n |-> workers[i].m.n, processID |-> i,
                  ID |-> serverProcesses[processKindPublisher].messageID])
          /\ UNCHANGED serverFatal
       \/ /\ MapRace(i)
          /\ serverFatal' = TRUE
          /\ UNCHANGED <<workers, assigned>>
    /\ UNCHANGED <<lastProcessID, serverProcesses, mu, routed, staleWrite,
                   procVars, readerVars,
                   ingVars, pureVars, lateVars>>

\* publishMessages, lines 295-296: p.messageID++ and s.processes[pn] = p,
\* written without s.mu.
publishWriteBack(i) ==
    /\ ~serverFatal
    /\ workers[i].pc = "writeback"
    /\ \/ /\ workers' = [workers EXCEPT ![i].pc = "recv",
                                        ![i].messageID = @ + 1]
          /\ serverProcesses' =
                 [serverProcesses EXCEPT ![processKindPublisher] = WrittenBack(i)]
          /\ staleWrite' =
                 (staleWrite \/ serverProcesses[processKindPublisher].processID # i)
          /\ UNCHANGED serverFatal
       \/ /\ MapRace(i)
          /\ serverFatal' = TRUE
          /\ UNCHANGED <<workers, serverProcesses, staleWrite>>
    /\ UNCHANGED <<lastProcessID, mu, routed, assigned, procVars, readerVars,
                   ingVars, pureVars, lateVars>>

\* A server that spawns processes for one subject and routes messages.
InitSpawn ==
    /\ Init
    /\ kind = CommandACK
    /\ nodeName = "central"
    /\ allowedReceivers = {"*"}
NextSpawn ==
    \/ \E k \in ProcessKinds : newProcess(k)
    \/ \E i \in 1..Len(workers) :
           \/ spawnWorkerLock(i)
           \/ spawnWorkerRegister(i)
           \/ publishTake(i)
           \/ publishAssignID(i)
           \/ publishWriteBack(i)
    \/ routeToProcess
SpecSpawn == InitSpawn /\ [][NextSpawn]_vars

\* ---------------------------------------------------------------- readers
\* The sequences over S of length up to n.
BSeq(S, n) == UNION {[1..k -> S] : k \in 0..n}

\* The messages an ingress source can hold: ToNode may be empty, ToNodes
\* may be empty (nil), Data stands for the other fields of the message.
ReaderNodes == {"ship1", "ship2"}
ReaderData == {"a", "b"}
ReaderMessages ==
    [ToNode : {""} \cup {"ship1"}, ToNodes : BSeq(ReaderNodes, MaxToNodes),
     Data : ReaderData]

\* A fan-out that keeps the ToNodes list in the messages it creates.
FanOutKeepToNodes(v) ==
    [i \in 1..Len(v.ToNodes) |-> [v EXCEPT !.ToNode = v.ToNodes[i]]]
\* checkMessageToNodes, lines 413-421: for every n of v.ToNodes a copy of v
\* with ToNodes = nil and ToNode = n.
FanOut(v) ==
    [i \in 1..Len(v.ToNodes) |->
        [v EXCEPT !.ToNodes = <<>>, !.ToNode = v.ToNodes[i]]]

\* A switch that looks at ToNodes before it looks at ToNode.
SwitchToNodesFirst(v) ==
    IF Len(v.ToNodes) # 0 THEN FanOut(v)
    ELSE IF v.ToNode # "" THEN <<v>>
    ELSE <<>>
\* checkMessageToNodes, lines 399-427: the switch, what is appended to msgs
\* for the message v.
SwitchToNode(v) ==
    IF v.ToNode # "" THEN <<v>>
    ELSE IF Len(v.ToNodes) # 0 THEN FanOut(v)
    ELSE <<>>

\* checkMessageToNodes, lines 395-429: the messages that are kept.
RECURSIVE checkMessageToNodes(_)
checkMessageToNodes(MsgSlice) ==
    IF MsgSlice = <<>> THEN <<>>
    ELSE SwitchToNode(Head(MsgSlice)) \o checkMessageToNodes(Tail(MsgSlice))

\* checkMessageToNodes, lines 423-427: the messages that have neither
\* ToNode nor ToNodes go to the error kernel.
NoToNode(v) == v.ToNode = "" /\ Len(v.ToNodes) = 0
checkMessageToNodesErrors(MsgSlice) == SelectSeq(MsgSlice, NoToNode)

\* A call of checkMessageToNodes (lines 395-429), as convertBytesToSAMs
\* makes it on the messages it has unmarshalled: the messages that are kept
\* are returned and the others are sent to the error kernel.
checkMessageToNodesCall ==
    /\ readerPc = "read"
    /\ msgOut' = checkMessageToNodes(msgIn)
    /\ readerErrs' = checkMessageToNodesErrors(msgIn)
    /\ readerPc' = "done"
    /\ UNCHANGED <<msgIn, procVars, regAux, ingVars, pureVars, lateVars>>

\* An ingress reader with the messages of one read.
InitReaders ==
    /\ InitProcesses(MaxDeliveries) /\ InitRegistry /\ InitIdle
    /\ kind = CommandACK
    /\ nodeName = "central"
    /\ allowedReceivers = {"*"}
    /\ \E in \in BSeq(ReaderMessages, MaxSlice) : InitReader(in)
NextReaders == checkMessageToNodesCall
SpecReaders == InitReaders /\ [][NextReaders]_vars

\* ---------------------------------------------------------------- ingress
\* Message{}: the zero value of a message of the ingress side.  A nil slice
\* is the empty sequence; the pointer PreviousMessage is the empty sequence
\* when nil and a sequence of one message otherwise.
ZeroMessage ==
    [ToNode |-> "", ToNodes |-> <<>>, FromNode |-> "", Data |-> <<>>,
     Method |-> "", MethodArgs |-> <<>>, ArgSignature |-> <<>>,
     ReplyMethod |-> "", ReplyMethodArgs |-> <<>>, IsReply |-> FALSE,
     ACKTimeout |-> 0, Retries |-> 0, MethodTimeout |-> 0,
     ReplyACKTimeout |-> 0, ReplyRetries |-> 0, ReplyMethodTimeout |-> 0,
     Directory |-> "", FileName |-> "", PreviousMessage |-> <<>>]
\* Subject{} and subjectAndMessage{}.
ZeroSubject == [ToNode |-> "", Event |-> "", Method |-> ""]
ZeroSAM == [Subject |-> ZeroSubject, Message |-> ZeroMessage]

\* A method table in which every method is declared as EventACK.
MethodEventAllACK(mth) == EventACK
\* GetMethodsAvailable: the event declared for a method of the table.
MethodEvent(mth) == IF mth \in MethodhandlersNACK THEN EventNACK ELSE EventACK

\* Method.getHandler: the handler of the method, nil when the method is not
\* in the table.
getHandler(method) ==
    IF method \in Methodhandlers THEN <<method>> ELSE <<>>
\* methodHandler.getKind.
getKind(h) == MethodEvent(h[1])

\* newSubjectAndMessage, lines 434-463.
newSubjectAndMessage(msg) ==
    LET tmpH == getHandler(msg.Method)
    IN  IF tmpH = <<>> THEN [ok |-> FALSE, sam |-> ZeroSAM]
        ELSE IF msg.ToNode = "" THEN [ok |-> FALSE, sam |-> ZeroSAM]
        ELSE IF msg.Method = "" THEN [ok |-> FALSE, sam |-> ZeroSAM]
        ELSE [ok |-> TRUE,
              sam |-> [Subject |-> [ToNode |-> msg.ToNode,
                                    Event |-> getKind(tmpH),
                                    Method |-> msg.Method],
                       Message |-> msg]]

\* The messages newSubjectAndMessage is called with.
SAMMessages ==
    {[ZeroMessage EXCEPT !.ToNode = t, !.Method = mth, !.FromNode = f,
                         !.Data = d, !.Retries = r] :
        t \in {"", "ship1"},
        mth \in {"", "REQBogus", "REQNone", "REQCliCommand", "REQHello",
                 "REQToFile", "REQToFileNACK", "REQErrorLog",
                 "REQKeysRequestUpdate", "REQKeysDeliverUpdate",
                 "REQAclRequestUpdate", "REQAclDeliverUpdate", "REQTest"},
        f \in {"", "central"}, d \in {<<>>, <<"ls">>}, r \in {0, 1}}

\* A call of newSubjectAndMessage.
newSubjectAndMessageCall(msg) ==
    /\ ingPc = "idle"
    /\ ingPc' = "done"
    /\ ingOp' = "newSubjectAndMessage"
    /\ ingIn' = <<msg>>
    /\ samOut' = <<newSubjectAndMessage(msg)>>
    /\ UNCHANGED <<toRingBufferCh, ingErrs, startVars, ingPanic,
                   replyBuilt, procVars, regAux, readerVars, pureVars, lateVars>>

\* The bytes an ingress source is given: a document that unmarshals into a
\* slice of messages, or bytes that do not.
yamlMarshal(MsgSlice) == <<"yaml", MsgSlice>>
yamlUnmarshal(b) ==
    IF Len(b) = 2 /\ b[1] = "yaml" THEN [ok |-> TRUE, msgs |-> b[2]]
    ELSE [ok |-> FALSE, msgs |-> <<>>]

\* convertBytesToSAMs, lines 373-384: the messages for which
\* newSubjectAndMessage gives no error, as subjectAndMessage values.
RECURSIVE samsOf(_)
samsOf(MsgSlice) ==
    IF MsgSlice = <<>> THEN <<>>
    ELSE LET r == newSubjectAndMessage(Head(MsgSlice))
         IN  (IF r.ok THEN <<r.sam>> ELSE <<>>) \o samsOf(Tail(MsgSlice))

\* convertBytesToSAMs, lines 359-387: the sams of the bytes read and the
\* number of errors sent to the error kernel on the way.
convertBytesToSAMs(b) ==
    LET u == yamlUnmarshal(b)
        checked == checkMessageToNodes(u.msgs)
        sam == samsOf(checked)
    IN  [ok |-> u.ok,
         sam |-> IF u.ok THEN sam ELSE <<>>,
         errs |-> Len(checkMessageToNodesErrors(u.msgs))
                      + (Len(checked) - Len(sam))]

\* A reader that leaves FromNode as it was submitted.
StampFromNodeKeep(sams, name) == sams
\* readSocket 201-206, readTCPListener 271-276, readHTTPlistenerHandler
\* 315-320: sams[i].Message.FromNode = Node(s.nodeName) for every i.
StampFromNode(sams, name) ==
    [i \in 1..Len(sams) |-> [sams[i] EXCEPT !.Message.FromNode = name]]

\* The messages submitted to the socket, TCP and HTTP readers.
IngressMessages ==
    {[ZeroMessage EXCEPT !.ToNode = t, !.ToNodes = ts, !.Method = mth,
                         !.FromNode = f] :
        t \in {"", "ship1"}, ts \in {<<>>, <<"ship1", "ship2">>},
        mth \in {"REQBogus", "REQCliCommand", "REQHello"},
        f \in {"", "ship9"}}
IngressBytes ==
    {<<"garbage">>} \cup {yamlMarshal(ms) : ms \in BSeq(IngressMessages, MaxSlice)}

\* The body of the three readers for one connection or request: read the
\* bytes, where a failed Read is sent to the error kernel and ends the
\* reader; convert the bytes read; on an error send it to the error kernel
\* and return; else stamp FromNode on every sam and send the batch to the
\* ring buffer.  audit is the number of info messages the reader sends to
\* the error kernel for every sam.
readIngress(op, readOK, b, audit) ==
    /\ ingPc = "idle"
    /\ ingPc' = "done"
    /\ ingOp' = op
    /\ ingIn' = b
    /\ IF ~readOK
       THEN /\ ingErrs' = ingErrs + 1
            /\ UNCHANGED toRingBufferCh
       ELSE LET c == convertBytesToSAMs(b)
            IN  IF ~c.ok
                THEN /\ ingErrs' = ingErrs + c.errs + 1
                     /\ UNCHANGED toRingBufferCh
                ELSE /\ ingErrs' = ingErrs + c.errs + audit * Len(c.sam)
                     /\ toRingBufferCh' =
                            Append(toRingBufferCh, StampFromNode(c.sam, nodeName))
    /\ UNCHANGED <<startVars, ingPanic, replyBuilt, samOut, procVars,
                   regAux, readerVars, pureVars, lateVars>>

\* A failed Accept, lines 164-168 and 233-238: the error goes to the error
\* kernel.  With continue the listener goes on to the next Accept; without
\* it the goroutine is started on the nil conn, and its defer conn.Close()
\* (line 171) is a call through a nil interface: a runtime panic.
acceptFailed(op, continues) ==
    /\ ingPc = "idle"
    /\ ingPc' = "done"
    /\ ingOp' = op
    /\ ingErrs' = ingErrs + 1
    /\ ingPanic' = ~continues
    /\ UNCHANGED <<ingIn, toRingBufferCh, startVars, replyBuilt, samOut,
                   procVars, regAux, readerVars, pureVars, lateVars>>

\* readSocket, lines 161-218, for one round of the accept loop.
readSocket(accepted, readOK, b) ==
    IF accepted THEN readIngress("readSocket", readOK, b, 1)
    ELSE acceptFailed("readSocket", FALSE)
\* readTCPListener, lines 231-283, for one round of the accept loop of a
\* listener that has been started.
readTCPListener(accepted, readOK, b) ==
    IF accepted THEN readIngress("readTCPListener", readOK, b, 0)
    ELSE acceptFailed("readTCPListener", TRUE)
\* readHTTPlistenerHandler, lines 285-325, for one request.
readHTTPlistenerHandler(readOK, b) ==
    readIngress("readHTTPlistenerHandler", readOK, b, 0)

\* sendErrorLogMessage: an error log message from a node, addressed to the
\* central error node, as the batch of one sam that is put on the channel.
ErrorLogSAM(from) ==
    newSubjectAndMessage([ZeroMessage EXCEPT !.ToNode = "errorCentral",
                                             !.FromNode = from,
                                             !.Data = <<"error">>,
                                             !.Method = "REQErrorLog"]).sam

\* proc.node of the hello publisher: newProcess sets it to subject.ToNode,
\* and the subject is made for s.configuration.CentralNodeName.
CentralNodeName == "central"

\* ProcessesStart, lines 165-182: one round of the procFunc of the hello
\* publisher, up to the send of the sam to the ring buffer: the sam is sent
\* whether newSAM gave an error or not.
helloProcFunc ==
    /\ ingPc = "idle" \/ (ingPc = "tick" /\ ingOp = "helloProcFunc")
    /\ ingPc' = "select"
    /\ ingOp' = "helloProcFunc"
    /\ LET msg == [ZeroMessage EXCEPT !.ToNode = "central",
                                     !.FromNode = nodeName,
                                     !.Data = <<"Hello from " \o nodeName \o "\n">>,
                                     !.Method = "REQHello"]
           r == newSubjectAndMessage(msg)
       IN  /\ ingIn' = <<msg>>
           /\ toRingBufferCh' = Append(toRingBufferCh, <<r.sam>>)
    /\ UNCHANGED <<ingErrs, startVars, ingPanic, replyBuilt, samOut,
                   procVars, regAux, readerVars, pureVars, lateVars>>

\* ProcessesStart, lines 184-190: the select of the procFunc.  On a tick of
\* the ticker the loop goes round; when the context is done an error log
\* message is sent to the ring buffer and the procFunc returns.
helloProcFuncSelect(cancelled) ==
    /\ ingPc = "select"
    /\ ingOp = "helloProcFunc"
    /\ IF cancelled
       THEN /\ toRingBufferCh' =
                   Append(toRingBufferCh, <<ErrorLogSAM(CentralNodeName)>>)
            /\ ingPc' = "done"
       ELSE /\ Len(toRingBufferCh) < MaxHello
            /\ ingPc' = "tick"
            /\ UNCHANGED toRingBufferCh
    /\ UNCHANGED <<ingOp, ingIn, ingErrs, startVars, ingPanic, replyBuilt,
                   samOut, procVars, regAux, readerVars, pureVars, lateVars>>

\* A reply that goes to the node the request was sent to.
ReplyToNodeSame(message) == message.ToNode
\* newReplyMessage, line 421: the reply goes to message.FromNode.
ReplyToNode(message) == message.FromNode

\* newReplyMessage, lines 403-407: the default of the reply method.
WithReplyMethod(message) ==
    IF message.ReplyMethod = ""
    THEN [message EXCEPT !.ReplyMethod = "REQToFileAppend"]
    ELSE message

\* newReplyMessage, lines 413-435: thisMsg, the copy of the message as it
\* is after the default was set, without its data, and newMsg, the reply.
thisMsgOf(message) == [WithReplyMethod(message) EXCEPT !.Data = <<>>]
newMsgOf(message, outData) ==
    LET msg == WithReplyMethod(message)
    IN  [ZeroMessage EXCEPT
            !.ToNode = ReplyToNode(msg),
            !.FromNode = msg.ToNode,
            !.Data = outData,
            !.Method = msg.ReplyMethod,
            !.MethodArgs = msg.ReplyMethodArgs,
            !.MethodTimeout = msg.ReplyMethodTimeout,
            !.IsReply = TRUE,
            !.ACKTimeout = msg.ReplyACKTimeout,
            !.Retries = msg.ReplyRetries,
            !.Directory = msg.Directory,
            !.FileName = msg.FileName,
            !.PreviousMessage = <<thisMsgOf(message)>>]

\* The requests a method handler calls newReplyMessage with, and the
\* output of the handler.
RequestMessages ==
    {[ZeroMessage EXCEPT
         !.ToNode = "ship1", !.FromNode = f, !.Method = "REQCliCommand",
         !.Data = d, !.MethodArgs = <<"bash", "-c", "ls">>,
         !.ACKTimeout = 2, !.Retries = 1, !.MethodTimeout = 4,
         !.ReplyMethod = rm, !.ReplyMethodArgs = ra,
         !.ReplyACKTimeout = 5, !.ReplyRetries = rr, !.ReplyMethodTimeout = 7,
         !.Directory = dir, !.FileName = "bar.log"] :
        f \in {"", "central"}, d \in {<<>>, <<"d">>},
        rm \in {"", "REQNone", "REQToFile", "REQBogus"},
        ra \in {<<>>, <<"x">>}, rr \in {0, 3}, dir \in {"", "foo"}}
OutData == {<<>>, <<"out">>}

\* newReplyMessage, lines 396-445.
newReplyMessage(message, outData) ==
    /\ ingPc = "idle"
    /\ ingPc' = "done"
    /\ ingOp' = "newReplyMessage"
    /\ ingIn' = <<message>>
    /\ IF message.ReplyMethod = "REQNone"
       THEN UNCHANGED <<replyBuilt, toRingBufferCh, ingErrs>>
       ELSE LET newMsg == newMsgOf(message, outData)
                r == newSubjectAndMessage(newMsg)
            IN  /\ replyBuilt' = <<newMsg>>
                /\ ingErrs' = ingErrs + (IF r.ok THEN 0 ELSE 1)
                /\ toRingBufferCh' = Append(toRingBufferCh, <<r.sam>>)
    /\ UNCHANGED <<startVars, ingPanic, samOut, procVars, regAux,
                   readerVars, pureVars, lateVars>>

\* Remove the element at index i of a sequence.
RemoveAt(sq, i) == SubSeq(sq, 1, i - 1) \o SubSeq(sq, i + 1, Len(sq))

\* readStartupFolder, lines 75-87: the loop over the indexes of the slice as
\* it was when the loop started (n of them), which removes the element at
\* the index when its FromNode is empty and stops when the index is the
\* last one of the slice as it is now.  An index beyond the slice is a
\* runtime panic.
RECURSIVE removeBlankFromNode(_, _, _, _)
removeBlankFromNode(sams, i, n, errs) ==
    IF i > n THEN [sams |-> sams, errs |-> errs, panic |-> FALSE]
    ELSE IF i > Len(sams) THEN [sams |-> sams, errs |-> errs, panic |-> TRUE]
    ELSE LET blank == sams[i].Message.FromNode = ""
             kept == IF blank THEN RemoveAt(sams, i) ELSE sams
             e == IF blank THEN errs + 1 ELSE errs
         IN  IF i = Len(kept)
             THEN [sams |-> kept, errs |-> e, panic |-> FALSE]
             ELSE removeBlankFromNode(kept, i + 1, n, e)

\* readStartupFolder, line 100: p := s.processes.active.procNames[name].
\* The map holds the subscriber process of the node for the method of the
\* subject once spawnWorker has registered it; a sam for another node or
\* method, or one that is looked up before that, gets the zero process.
ProcessFound(sam) ==
    /\ sam.Subject.ToNode = nodeName
    /\ sam.Subject.Method = SubjectMethod
    /\ serverProcesses[processKindSubscriber].processID # 0

\* A reader that also hands the sams of the file to the ring buffer.
StartupToRingBufferBulk(sams) == <<sams>>
\* readStartupFolder, lines 89-92: what the reader sends to the ring buffer
\* channel: nothing, the send is commented out.
StartupToRingBuffer(sams) == <<>>

\* The messages of a file in the startup folder.
StartupMessages ==
    {[ZeroMessage EXCEPT !.ToNode = "central", !.Method = SubjectMethod,
                         !.FromNode = f] : f \in {"", "ops"}}
        \cup {[ZeroMessage EXCEPT !.ToNode = "ship1", !.Method = SubjectMethod,
                                  !.FromNode = "ops"]}
StartupBytes ==
    {<<"garbage">>} \cup
        {yamlMarshal(ms) : ms \in BSeq(StartupMessages, MaxStartup)}

\* The goroutine of readStartupFolder as a holder of the mutex of the map.
StartupReader == 0 - 1

\* readStartupFolder, line 40 and the end of the loops at 96 and 116: on to
\* the next file, or return when there is none.
StartupNextFile(left) == IF left > 0 THEN "file" ELSE "done"

\* readStartupFolder, lines 29-38: get the paths of the files in the
\* startup folder; an error goes to the error kernel and ends the reader.
readStartupFolder(ok, n) ==
    /\ ingPc = "idle"
    /\ ingOp' = "readStartupFolder"
    /\ IF ok
       THEN /\ startupFiles' = n
            /\ ingPc' = StartupNextFile(n)
            /\ UNCHANGED ingErrs
       ELSE /\ startupFiles' = 0
            /\ ingPc' = "done"
            /\ ingErrs' = ingErrs + 1
    /\ UNCHANGED <<ingIn, toRingBufferCh, ingPanic, replyBuilt, samOut,
                   startupSams, startupI, startupP, startupHandled, startupNil,
                   procVars, regAux, readerVars, pureVars, lateVars>>

\* readStartupFolder, lines 40-92, for the next file: read it, where a
\* failed open or read is sent to the error kernel and the loop continues;
\* convert the bytes, with the same on an error; remove the sams without
\* FromNode.  What is left is handled sam by sam.
readStartupFile(readOK, b) ==
    /\ ingPc = "file"
    /\ startupFiles' = startupFiles - 1
    /\ ingIn' = b
    /\ startupHandled' = <<>>
    /\ startupI' = 1
    /\ LET c == convertBytesToSAMs(b)
           f == removeBlankFromNode(c.sam, 1, Len(c.sam), 0)
       IN  IF ~readOK
           THEN /\ ingErrs' = ingErrs + 1
                /\ startupSams' = <<>>
                /\ ingPc' = StartupNextFile(startupFiles - 1)
                /\ UNCHANGED <<ingPanic, toRingBufferCh>>
           ELSE IF ~c.ok
           THEN /\ ingErrs' = ingErrs + c.errs + 1
                /\ startupSams' = <<>>
                /\ ingPc' = StartupNextFile(startupFiles - 1)
                /\ UNCHANGED <<ingPanic, toRingBufferCh>>
           ELSE IF f.panic
           THEN /\ ingErrs' = ingErrs + c.errs + f.errs
                /\ startupSams' = <<>>
                /\ ingPanic' = TRUE
                /\ ingPc' = "done"
                /\ UNCHANGED toRingBufferCh
           ELSE /\ ingErrs' = ingErrs + c.errs + f.errs
                /\ startupSams' = f.sams
                /\ toRingBufferCh' =
                       toRingBufferCh \o StartupToRingBuffer(f.sams)
                /\ ingPc' = IF f.sams = <<>>
                            THEN StartupNextFile(startupFiles - 1)
                            ELSE "lock"
                /\ UNCHANGED ingPanic
    /\ UNCHANGED <<ingOp, replyBuilt, samOut, startupP, startupNil, procVars,
                   regAux, readerVars, pureVars, lateVars>>

\* readStartupFolder, line 99: s.processes.active.mu.Lock().
readStartupLock ==
    /\ ingPc = "lock"
    /\ mu = 0
    /\ mu' = StartupReader
    /\ ingPc' = "lookup"
    /\ UNCHANGED <<ingOp, ingIn, toRingBufferCh, ingErrs, ingPanic, replyBuilt,
                   samOut, startVars, lastProcessID, serverProcesses, workers,
                   routed, assigned, staleWrite, serverFatal, procVars,
                   readerVars, pureVars, lateVars>>

\* readStartupFolder, lines 100-101: read the process of the sam from the
\* map and unlock.
readStartupLookup ==
    /\ ingPc = "lookup"
    /\ startupP' = IF ProcessFound(startupSams[startupI])
                   THEN serverProcesses[processKindSubscriber]
                   ELSE NoProcess
    /\ mu' = 0
    /\ ingPc' = "handle"
    /\ UNCHANGED <<ingOp, ingIn, toRingBufferCh, ingErrs, ingPanic, replyBuilt,
                   samOut, startupFiles, startupSams, startupI, startupHandled,
                   startupNil, lastProcessID, serverProcesses, workers, routed,
                   assigned, staleWrite, serverFatal, procVars, readerVars,
                   pureVars, lateVars>>

\* readStartupFolder, lines 96 and 116: on to the next sam of the file, or
\* to the next file.
StartupNextSam ==
    /\ startupI' = startupI + 1
    /\ ingPc' = IF startupI < Len(startupSams) THEN "lock"
                ELSE StartupNextFile(startupFiles)

\* readStartupFolder, lines 103-115, for the process p that was read.  The
\* method table of the zero process is empty, so for a sam without a
\* process the error is sent with p.errorKernel.errSend, where
\* p.errorKernel is nil: errSend either gets the error out or dereferences
\* its receiver, which ends the server.  With a process the handler of the
\* method is called directly, and an error it returns goes to the error
\* kernel.
readStartupHandle(ok) ==
    /\ ingPc = "handle"
    /\ LET sam == startupSams[startupI]
       IN  IF startupP = NoProcess
           THEN /\ IF ok
                   THEN /\ ingErrs' = ingErrs + 1
                        /\ StartupNextSam
                        /\ UNCHANGED startupNil
                   ELSE /\ startupNil' = TRUE
                        /\ ingPc' = "done"
                        /\ UNCHANGED <<ingErrs, startupI>>
                /\ UNCHANGED startupHandled
           ELSE IF ~CheckIfExists(sam.Message.Method)
           THEN /\ ingErrs' = ingErrs + 1
                /\ StartupNextSam
                /\ UNCHANGED <<startupHandled, startupNil>>
           ELSE /\ startupHandled' = Append(startupHandled, sam)
                /\ ingErrs' = ingErrs + (IF ok THEN 0 ELSE 1)
                /\ StartupNextSam
                /\ UNCHANGED startupNil
    /\ UNCHANGED <<ingOp, ingIn, toRingBufferCh, ingPanic, replyBuilt, samOut,
                   startupFiles, startupSams, startupP, procVars, regAux,
                   readerVars, pureVars, lateVars>>

\* ProcessesStart, lines 120-127: the subscriber process of the node for
\* REQCliCommand is made and its spawnWorker is started, once.
startSubscriber ==
    /\ lastProcessID = 0
    /\ newProcess(processKindSubscriber)

\* A server on which one of the producers of the ring buffer runs.
InitIngressSpec ==
    /\ InitProcesses(MaxDeliveries) /\ InitRegistry /\ InitReader(<<>>)
    /\ InitIdle
    /\ kind = CommandACK
    /\ allowedReceivers = {"*"}
NextIngress ==
    \/ /\ ingPc = "idle"
       /\ \/ \E msg \in SAMMessages : newSubjectAndMessageCall(msg)
          \/ \E b \in IngressBytes :
                 \/ readSocket(TRUE, TRUE, b)
                 \/ readTCPListener(TRUE, TRUE, b)
                 \/ readHTTPlistenerHandler(TRUE, b)
          \/ \E accepted \in BOOLEAN : readSocket(accepted, FALSE, <<>>)
          \/ \E accepted \in BOOLEAN : readTCPListener(accepted, FALSE, <<>>)
          \/ readHTTPlistenerHandler(FALSE, <<>>)
          \/ \E message \in RequestMessages : \E outData \in OutData :
                 newReplyMessage(message, outData)
    \/ helloProcFunc
    \/ \E cancelled \in BOOLEAN : helloProcFuncSelect(cancelled)
SpecIngress == InitIngressSpec /\ [][NextIngress]_vars

\* A server that reads its startup folder while the subscriber process of
\* the node is being started.
NextStartup ==
    \/ /\ ingPc = "idle"
       /\ \E ok \in BOOLEAN : \E n \in 0..MaxFiles : readStartupFolder(ok, n)
    \/ /\ ingPc = "file"
       /\ \/ \E b \in StartupBytes : readStartupFile(TRUE, b)
          \/ readStartupFile(FALSE, <<>>)
    \/ readStartupLock
    \/ readStartupLookup
    \/ \E ok \in BOOLEAN : readStartupHandle(ok)
    \/ startSubscriber
    \/ \E i \in 1..Len(workers) :
           \/ spawnWorkerLock(i)
           \/ spawnWorkerRegister(i)
SpecStartup == InitIngressSpec /\ [][NextStartup]_vars

\* ------------------------------------------------------------ file naming
\* strings.Split(s, "/") from the character at position i on: start is the
\* position where the element being read begins and out holds the elements
\* read so far.  Every separator ends an element, so a leading or trailing
\* separator and two separators in a row give an empty element.
RECURSIVE splitFrom(_, _, _, _)
splitFrom(s, i, start, out) ==
    IF i > Len(s) THEN Append(out, SubSeq(s, start, Len(s)))
    ELSE IF SubSeq(s, i, i) = "/"
    THEN splitFrom(s, i + 1, i + 1, Append(out, SubSeq(s, start, i - 1)))
    ELSE splitFrom(s, i + 1, start, out)

\* strings.Split(s, "/"): the elements of the path s between its separators.
pathSplit(s) == splitFrom(s, 1, 1, <<>>)

\* strings.Join(elems, "/").
RECURSIVE stringsJoin(_)
stringsJoin(elems) ==
    IF elems = <<>> THEN ""
    ELSE IF Len(elems) = 1 THEN Head(elems)
    ELSE Head(elems) \o "/" \o stringsJoin(Tail(elems))

\* filepath.Clean, the loop over the elements of the path: an empty element
\* and "." are dropped, ".." removes the element before it when there is
\* one that is not "..", is dropped at the root, and is kept otherwise.
RECURSIVE cleanElements(_, _, _)
cleanElements(elems, out, rooted) ==
    IF elems = <<>> THEN out
    ELSE LET e == Head(elems)
             next == IF e = "" \/ e = "." THEN out
                     ELSE IF e = ".."
                     THEN IF out # <<>> /\ out[Len(out)] # ".."
                          THEN SubSeq(out, 1, Len(out) - 1)
                          ELSE IF rooted THEN out
                          ELSE Append(out, "..")
                     ELSE Append(out, e)
         IN  cleanElements(Tail(elems), next, rooted)

\* filepath.Clean(path): the shortest path that names the same place; a
\* path that begins with the separator is rooted and stays so, and a
\* relative path with nothing left is ".".
filepathClean(path) ==
    LET elems == pathSplit(path)
        rooted == Len(path) > 0 /\ SubSeq(path, 1, 1) = "/"
        out == cleanElements(elems, <<>>, rooted)
    IN  IF rooted THEN "/" \o stringsJoin(out)
        ELSE IF out = <<>> THEN "."
        ELSE stringsJoin(out)

\* filepath.Join: the elements that are not empty are joined with the
\* separator and the result is cleaned; "" when every element is empty.
filepathJoin(elems) ==
    LET nonEmpty == SelectSeq(elems, LAMBDA e : e # "")
    IN  IF nonEmpty = <<>> THEN ""
        ELSE filepathClean(stringsJoin(nonEmpty))

\* proc.configuration.SubscribersDataFolder: a relative folder, folders
\* given from the working directory, and an absolute one.
SubscribersDataFolders == {"data", "./var", "./data", "/var/lib/steward/"}

\* A naming that takes the fields of the message itself in every case.
selectFileNamingOwn(message, dataFolder) ==
    [fileName |-> message.FileName,
     folderTree |-> filepathJoin(<<dataFolder, message.Directory, message.ToNode>>)]
\* selectFileNaming, lines 451-470.
selectFileNaming(message, dataFolder) ==
    IF message.PreviousMessage = <<>>
    THEN [fileName |-> message.FileName,
          folderTree |-> filepathJoin(<<dataFolder, message.Directory,
                                        message.ToNode>>)]
    ELSE IF message.PreviousMessage[1].ToNode # ""
    THEN [fileName |-> message.PreviousMessage[1].FileName,
          folderTree |-> filepathJoin(<<dataFolder,
                                        message.PreviousMessage[1].Directory,
                                        message.PreviousMessage[1].ToNode>>)]
    ELSE [fileName |-> message.PreviousMessage[1].FileName,
          folderTree |-> filepathJoin(<<dataFolder,
                                        message.PreviousMessage[1].Directory,
                                        message.FromNode>>)]

\* The Directory field of a message is free text: empty, a plain name, an
\* absolute path, a path with "." and a trailing separator, and paths that
\* go up.
Directories ==
    {"", "foo", "/var/steward/cli-command/executed-result", "./my/log/files/",
     "../etc", "..", "a/../.."}

\* The messages a file writing handler gets: requests, and replies that
\* carry the request they answer.
PreviousMessages ==
    {[ZeroMessage EXCEPT !.ToNode = t, !.Directory = dir, !.FileName = fl] :
        t \in {"", "ship1"}, dir \in Directories, fl \in {"", "bar.log"}}
NamingMessages ==
    {[ZeroMessage EXCEPT !.ToNode = t, !.FromNode = f, !.Directory = dir,
                         !.FileName = fl, !.PreviousMessage = prev] :
        t \in {"", "central"}, f \in {"", "ship1", "ship2"},
        dir \in {"", "dirm", "./my/log/files/"}, fl \in {"m.log"},
        prev \in {<<>>} \cup {<<pm>> : pm \in PreviousMessages}}

\* A call of selectFileNaming by a handler of a process with the data
\* folder fnIn[2].
selectFileNamingCall ==
    /\ fnIn # <<>>
    /\ fnOut = <<>>
    /\ fnOut' = <<selectFileNaming(fnIn[1], fnIn[2])>>
    /\ UNCHANGED <<fnIn, sigIn, sigOut, procVars, regAux, readerVars, ingVars,
                   lateVars>>

InitNaming ==
    /\ InitProcesses(MaxDeliveries) /\ InitRegistry /\ InitReader(<<>>)
    /\ InitIngress /\ InitLate
    /\ kind = CommandACK /\ nodeName = "central" /\ allowedReceivers = {"*"}
    /\ \E message \in NamingMessages : \E dataFolder \in SubscribersDataFolders :
           InitPure(<<message, dataFolder>>, <<>>)
NextNaming == selectFileNamingCall
SpecNaming == InitNaming /\ [][NextNaming]_vars

\* ------------------------------------------------------------- signatures
\* The public signing keys of the nodes; a signature is made with the
\* private key of one node over one text.
SignKeyOf == [n \in {"central", "ship1", "ship2"} |-> <<"key", n>>]
Sign(n, text) == <<[key |-> SignKeyOf[n], text |-> text]>>
\* ed25519.Verify: the signature was made over the text with the private
\* key of the public key.
ed25519Verify(publicKey, text, sig) ==
    /\ sig # <<>>
    /\ sig[1].key = publicKey
    /\ sig[1].text = text

\* argsToString: strings.Join(args, " ").  A string is the sequence of its
\* characters and the result is the characters of the arguments with one
\* space between two arguments.
RECURSIVE argsToString(_)
argsToString(args) ==
    IF args = <<>> THEN <<>>
    ELSE IF Len(args) = 1 THEN Head(args)
    ELSE Head(args) \o <<" ">> \o argsToString(Tail(args))

\* verifySignature, lines 293-313.
verifySignature(n, msg) ==
    IF ~n.EnableSignatureCheck THEN TRUE
    ELSE IF msg.Method # "REQCliCommand" THEN TRUE
    ELSE ed25519Verify(n.SignPublicKey, argsToString(msg.MethodArgs),
                       msg.ArgSignature)

\* The node ship1 that receives a message: its own public key, the public
\* keys it has stored for the other nodes, and the configuration.
AuthArgs ==
    {<<<<"l", "s">>>>,
     <<<<"l", "s">>, <<"-", "l">>>>,
     <<<<"l", "s", " ", "-", "l">>>>}
AuthNodes ==
    {[EnableSignatureCheck |-> en, SignPublicKey |-> SignKeyOf["ship1"],
      Keys |-> [nd \in {"central", "ship2"} |-> SignKeyOf[nd]]] :
        en \in BOOLEAN}
\* The signatures a message can carry: none, or the signature a node has
\* made over the joined arguments of an argument list.
AuthSigned ==
    {<<>>} \cup {<<[signer |-> k, args |-> a]>> :
                    k \in {"central", "ship1", "ship2"}, a \in AuthArgs}
AuthMessage(f, mth, args, sg) ==
    [ZeroMessage EXCEPT
        !.ToNode = "ship1", !.FromNode = f, !.Method = mth, !.MethodArgs = args,
        !.ArgSignature = IF sg = <<>> THEN <<>>
                         ELSE Sign(sg[1].signer, argsToString(sg[1].args))]

\* A call of verifySignature by a subscriber.
verifySignatureCall ==
    /\ sigIn # <<>>
    /\ sigOut = <<>>
    /\ sigOut' = <<verifySignature(sigIn[1], sigIn[2])>>
    /\ UNCHANGED <<fnIn, fnOut, sigIn, procVars, regAux, readerVars, ingVars,
                   lateVars>>

InitAuth ==
    /\ InitProcesses(MaxDeliveries) /\ InitRegistry /\ InitReader(<<>>)
    /\ InitIngress /\ InitLate
    /\ kind = CommandACK /\ nodeName = "central" /\ allowedReceivers = {"*"}
    /\ \E n \in AuthNodes, f \in {"central", "ship2"},
          mth \in {"REQCliCommand", "REQHello"}, args \in AuthArgs,
          sg \in AuthSigned :
           InitPure(<<>>, <<n, AuthMessage(f, mth, args, sg), sg>>)
NextAuth == verifySignatureCall
SpecAuth == InitAuth /\ [][NextAuth]_vars

\* ------------------------------------------------------ claims C11 to C16
\* C11: on a subject with a method that is not n-prefixed, the handler of a
\* later message never starts while the delivery of an earlier message of
\* the subject is still waiting for its handler.
C11_HandledInSendOrder ==
    \A h \in handlers :
        \A i \in 1..Len(handlerLog) :
            ~ /\ h.pc = "start"
              /\ gobDecode(h.data).n > 0
              /\ gobDecode(h.data).n < handlerLog[i].n

\* The sender of a delivery is in the allowedReceivers of the subscriber.
SenderAllowed(data) ==
    \/ gobDecode(data).FromNode \in allowedReceivers
    \/ "*" \in allowedReceivers

\* C12: on an ACK kind of subject, a delivery of a sender that is not in
\* allowedReceivers (and "*" is not either) never gets its handler invoked
\* and its reply is exactly "not allowed from <FromNode>"; a handler is
\* invoked only for a sender that is allowed.
C12_NotAllowedRejected ==
    IsACK(kind) =>
        /\ \A i \in 1..Len(handlerLog) : SenderAllowed(handlerLog[i].data)
        /\ \A i \in 1..Len(replyLog) :
               ~SenderAllowed(replyLog[i].data) =>
                   replyLog[i].payload =
                       <<"not allowed from ", gobDecode(replyLog[i].data).FromNode>>

\* C12 witness: a sender that is not allowed got the rejection reply.
C12_Witness ==
    /\ IsACK(kind)
    /\ \E i \in 1..Len(replyLog) :
           /\ ~SenderAllowed(replyLog[i].data)
           /\ Decodes(replyLog[i].data)

\* C13: on a NACK kind of subject the handler is never invoked for a sender
\* that is not in allowedReceivers.
C13_NackNotAllowedDropped ==
    IsNACK(kind) =>
        \A i \in 1..Len(handlerLog) : SenderAllowed(handlerLog[i].data)

\* The number of replies published for delivery d.
ReplyCount(d) == Cardinality({i \in 1..Len(replyLog) : replyLog[i].d = d})

\* C14: a delivery whose goroutine is gone has exactly one reply on an ACK
\* kind of subject and none on a NACK kind of subject.
C14_OneReplyPerAckDelivery ==
    \A d \in 1..nextD :
        (\A h \in handlers : h.d # d) =>
            ReplyCount(d) = (IF IsACK(kind) THEN 1 ELSE 0)

\* C15: a payload that does not decode into a message gets no handler
\* invoked and no reply published.
C15_MalformedRejected ==
    /\ \A i \in 1..Len(handlerLog) : Decodes(handlerLog[i].data)
    /\ \A i \in 1..Len(replyLog) : Decodes(replyLog[i].data)

\* C16: a message with a method that is not in the method table is
\* discarded: there is no call through the missing handler, and the
\* subscriber keeps running.
C16_UnknownMethodDiscarded == ~panicked

\* ------------------------------------------------------ claims C17 to C19
\* The workers of kind k that run (spawnWorker has started their loop).
Running(k) ==
    {i \in 1..Len(workers) :
        /\ workers[i].processKind = k
        /\ workers[i].pc \notin {"lock", "register"}}

\* C17: spawning is idempotent per registry key: at most one publisher
\* worker and at most one subscriber worker run for the subject.
C17_SpawnIdempotent ==
    \A k \in ProcessKinds : Cardinality(Running(k)) <= 1

\* C18: no two workers access the registry map at the same time with one of
\* them writing, and no registered process is replaced by the write-back of
\* another worker's copy.
C18_RegistrySerialized ==
    /\ \A i, j \in 1..Len(workers) : ~ConflictingAccess(i, j)
    /\ ~staleWrite
    /\ ~serverFatal

\* C19: the IDs given to successive messages of one publisher name never
\* decrease, and two distinct messages never get the same ID.
C19_IDsMonotonicUnique ==
    \A i, j \in 1..Len(assigned) :
        i < j => /\ assigned[i].ID <= assigned[j].ID
                 /\ assigned[i].n # assigned[j].n =>
                        assigned[i].ID # assigned[j].ID

\* ---------------------------------------------------------- claim C20
\* The number of messages emitted for the input message v.
Emitted(v) == IF v.ToNode # "" THEN 1 ELSE Len(v.ToNodes)
\* The number of messages emitted for the first i input messages.
RECURSIVE EmittedUpTo(_)
EmittedUpTo(i) == IF i = 0 THEN 0 ELSE EmittedUpTo(i - 1) + Emitted(msgIn[i])

\* C20: a message with ToNode empty and ToNodes = [n1..nN] is emitted as N
\* messages in the order of ToNodes, the k-th with ToNode = nk, ToNodes nil
\* and the other fields of the original; a message with ToNode set is
\* emitted as it is.
C20_FanOut ==
    readerPc = "done" =>
        /\ Len(msgOut) = EmittedUpTo(Len(msgIn))
        /\ \A i \in 1..Len(msgIn) :
               IF msgIn[i].ToNode # ""
               THEN msgOut[EmittedUpTo(i - 1) + 1] = msgIn[i]
               ELSE \A k \in 1..Len(msgIn[i].ToNodes) :
                        msgOut[EmittedUpTo(i - 1) + k] =
                            [ToNode |-> msgIn[i].ToNodes[k], ToNodes |-> <<>>,
                             Data |-> msgIn[i].Data]

\* C20 witness: a message with two ToNodes was fanned out next to a message
\* that has both ToNode and ToNodes.
C20_Witness ==
    /\ readerPc = "done"
    /\ \E i, j \in 1..Len(msgIn) :
           /\ msgIn[i].ToNode = "" /\ Len(msgIn[i].ToNodes) = 2
           /\ msgIn[i].ToNodes[1] # msgIn[i].ToNodes[2]
           /\ msgIn[j].ToNode # "" /\ Len(msgIn[j].ToNodes) > 0
    /\ Len(msgOut) = 3

\* ---------------------------------------------------------- claim C21
HasToNode(v) == v.ToNode # ""
HasToNodes(v) == v.ToNodes # <<>>
BothSet(v) == v.ToNode # "" /\ v.ToNodes # <<>>
NeitherSet(i) == msgIn[i].ToNode = "" /\ msgIn[i].ToNodes = <<>>

\* C21: a message with both ToNode and ToNodes is emitted once, as it is,
\* and none of its ToNodes gets a message; a message with neither is not
\* emitted and gives one error; the messages that are kept keep their order.
C21_ToNodeWinsAndDrop ==
    readerPc = "done" =>
        /\ SelectSeq(msgOut, HasToNodes) = SelectSeq(msgIn, BothSet)
        /\ (\A i \in 1..Len(msgIn) : HasToNode(msgIn[i]) \/ NeitherSet(i)) =>
               msgOut = SelectSeq(msgIn, HasToNode)
        /\ Len(readerErrs) =
               Cardinality({i \in 1..Len(msgIn) : NeitherSet(i)})
        /\ \A i \in 1..Len(readerErrs) :
               readerErrs[i].ToNode = "" /\ readerErrs[i].ToNodes = <<>>

\* C21 witness: a slice of a message with neither field and a message with
\* both fields gave one message and one error.
C21_Witness ==
    /\ readerPc = "done"
    /\ Len(msgIn) = 2
    /\ NeitherSet(1)
    /\ BothSet(msgIn[2])
    /\ Len(msgOut) = 1
    /\ Len(readerErrs) = 1

\* ---------------------------------------------------------- claim C22
\* The event the method table declares for a method: the handlers of the
\* hello, the NACK file write and the key and ACL update methods are
\* declared with EventNACK, those of all other methods with EventACK.
DeclaredEvent(mth) ==
    CASE mth = "REQHello" -> "EventNACK"
      [] mth = "REQToFileNACK" -> "EventNACK"
      [] mth = "REQKeysRequestUpdate" -> "EventNACK"
      [] mth = "REQKeysDeliverUpdate" -> "EventNACK"
      [] mth = "REQAclRequestUpdate" -> "EventNACK"
      [] mth = "REQAclDeliverUpdate" -> "EventNACK"
      [] OTHER -> "EventACK"

\* C22: newSubjectAndMessage(m) gives an error and no subject when m.Method
\* is not in the method table or m.ToNode is empty; otherwise the result
\* holds m itself and the subject (m.ToNode, m.Method, the event declared
\* for m.Method).
C22_NewSubjectAndMessage ==
    ingOp = "newSubjectAndMessage" =>
        LET msg == ingIn[1]
            r == samOut[1]
        IN  IF msg.Method \notin Methodhandlers \/ msg.ToNode = ""
            THEN ~r.ok /\ r.sam = ZeroSAM
            ELSE /\ r.ok
                 /\ r.sam.Message = msg
                 /\ r.sam.Subject.ToNode = msg.ToNode
                 /\ r.sam.Subject.Method = msg.Method
                 /\ r.sam.Subject.Event = DeclaredEvent(msg.Method)

\* C22 witness: a subject with the event EventNACK was built for a
\* REQToFileNACK message.
C22_Witness ==
    /\ ingOp = "newSubjectAndMessage"
    /\ ingIn[1].Method = "REQToFileNACK"
    /\ samOut[1].ok
    /\ samOut[1].sam.Subject = [ToNode |-> "ship1", Event |-> "EventNACK",
                                Method |-> "REQToFileNACK"]

\* --------------------------------------------------- claims C23 to C28
\* The sams that are on the ring buffer channel.
OnRingBuffer ==
    UNION {{toRingBufferCh[i][j] : j \in 1..Len(toRingBufferCh[i])} :
              i \in 1..Len(toRingBufferCh)}

\* C23: every sam a producer puts on the ring buffer channel has a ToNode
\* and a method of the method table.
C23_RingBufferValid ==
    \A sam \in OnRingBuffer :
        /\ sam.Message.ToNode # ""
        /\ sam.Message.Method \in Methodhandlers

Readers == {"readSocket", "readTCPListener", "readHTTPlistenerHandler"}

\* C24: every message that the socket, TCP and HTTP readers put on the ring
\* buffer channel has the name of the local node as FromNode.
C24_FromNodeStamped ==
    ingOp \in Readers =>
        \A sam \in OnRingBuffer : sam.Message.FromNode = nodeName

\* C24 witness: a message was submitted with another FromNode and went to
\* the ring buffer.
C24_Witness ==
    /\ ingOp \in Readers
    /\ OnRingBuffer # {}
    /\ \A i \in 1..Len(ingIn[2]) : ingIn[2][i].FromNode = "ship9"

\* A message of the file that has a FromNode.
StartupExpected(v) == v.FromNode # ""

\* C25: after the filter of readStartupFolder no message without FromNode
\* is left of the file, so no handler is called for one, and the messages
\* with a FromNode are all kept, in their order.
C25_BlankFromNodeRejected ==
    (ingOp = "readStartupFolder" /\ yamlUnmarshal(ingIn).ok) =>
        /\ ~ingPanic
        /\ \A i \in 1..Len(startupHandled) :
               startupHandled[i].Message.FromNode # ""
        /\ [i \in 1..Len(startupSams) |-> startupSams[i].Message] =
               SelectSeq(yamlUnmarshal(ingIn).msgs, StartupExpected)

\* C26: readStartupFolder puts nothing on the ring buffer channel and
\* publishes nothing to the broker.
C26_StartupHandledLocally ==
    ingOp = "readStartupFolder" =>
        /\ toRingBufferCh = <<>>
        /\ published = <<>>

\* C26 witness: the handlers of two messages of the file were called.
C26_Witness ==
    /\ ingOp = "readStartupFolder"
    /\ Len(startupHandled) = 2

\* The method of the reply to the request msg.
ReplyMethodOf(msg) ==
    IF msg.ReplyMethod = "" THEN "REQToFileAppend" ELSE msg.ReplyMethod

\* The fields of the reply r to the request msg, PreviousMessage aside.
ReplyFields(r, msg) ==
    /\ r.IsReply
    /\ r.ToNode = msg.FromNode
    /\ r.FromNode = msg.ToNode
    /\ r.Method = ReplyMethodOf(msg)
    /\ r.MethodArgs = msg.ReplyMethodArgs
    /\ r.ACKTimeout = msg.ReplyACKTimeout
    /\ r.Retries = msg.ReplyRetries
    /\ r.MethodTimeout = msg.ReplyMethodTimeout
    /\ r.Directory = msg.Directory
    /\ r.FileName = msg.FileName
    /\ r.PreviousMessage # <<>>

\* C27 as stated: the reply built for a request has the fields above and a
\* PreviousMessage that equals the request with Data set to nil.
C27_ReplyFields ==
    (ingOp = "newReplyMessage" /\ replyBuilt # <<>>) =>
        /\ ReplyFields(replyBuilt[1], ingIn[1])
        /\ replyBuilt[1].PreviousMessage[1] = [ingIn[1] EXCEPT !.Data = <<>>]

\* C27 amended: the PreviousMessage equals the request with Data set to nil
\* and with ReplyMethod set to the method of the reply, which differs from
\* the request when its ReplyMethod was empty.
C27_ReplyFieldsDefaulted ==
    (ingOp = "newReplyMessage" /\ replyBuilt # <<>>) =>
        /\ ReplyFields(replyBuilt[1], ingIn[1])
        /\ replyBuilt[1].PreviousMessage[1] =
               [ingIn[1] EXCEPT !.Data = <<>>,
                                !.ReplyMethod = ReplyMethodOf(ingIn[1])]

\* C27 witness: a reply was built for a request with data and without a
\* reply method.
C27_Witness ==
    /\ ingOp = "newReplyMessage"
    /\ replyBuilt # <<>>
    /\ ingIn[1].ReplyMethod = ""
    /\ ingIn[1].Data # <<>>
    /\ ingIn[1].FromNode = "central"

\* C28: newReplyMessage sends nothing when ReplyMethod is REQNone, and else
\* exactly one message, with the method REQToFileAppend when ReplyMethod is
\* empty and with the method ReplyMethod otherwise.
C28_OneReplyOrNone ==
    ingOp = "newReplyMessage" =>
        IF ingIn[1].ReplyMethod = "REQNone"
        THEN toRingBufferCh = <<>>
        ELSE /\ Len(toRingBufferCh) = 1
             /\ Len(toRingBufferCh[1]) = 1
             /\ toRingBufferCh[1][1].Message.Method = ReplyMethodOf(ingIn[1])

\* --------------------------------------------------- claims C29 and C30
\* The folder dataFolder/directory/node as a path: the string with the three
\* and a separator between them, named the shortest way.
Tree(dataFolder, directory, node) ==
    filepathClean(dataFolder \o "/" \o directory \o "/" \o node)
\* The same folder written out, for a data folder that is a plain name and
\* a directory and a node that are plain names or empty.
PlainNames == {"", "data", "foo", "dirm", "ship1", "ship2", "central"}
PlainTree(dataFolder, directory, node) ==
    dataFolder \o (IF directory = "" THEN "" ELSE "/" \o directory)
               \o (IF node = "" THEN "" ELSE "/" \o node)

\* C29: selectFileNaming gives the file name and dataFolder/Directory/ToNode
\* of the message when it has no PreviousMessage, those of the
\* PreviousMessage when that has a ToNode, and the file name and directory
\* of the PreviousMessage with FromNode of the message otherwise; the reply
\* to a request sent to ship1 with directory foo and file name bar.log goes
\* to data/foo/ship1/bar.log.
C29_FileNaming ==
    fnOut # <<>> =>
        LET msg == fnIn[1]
            dataFolder == fnIn[2]
            r == fnOut[1]
            Names(fileName, directory, node) ==
                /\ r.fileName = fileName
                /\ r.folderTree = Tree(dataFolder, directory, node)
                /\ (dataFolder = "data"
                        /\ {directory, node} \subseteq PlainNames) =>
                       r.folderTree = PlainTree(dataFolder, directory, node)
        IN  /\ msg.PreviousMessage = <<>> =>
                   Names(msg.FileName, msg.Directory, msg.ToNode)
            /\ (msg.PreviousMessage # <<>>
                    /\ msg.PreviousMessage[1].ToNode # "") =>
                   Names(msg.PreviousMessage[1].FileName,
                         msg.PreviousMessage[1].Directory,
                         msg.PreviousMessage[1].ToNode)
            /\ (msg.PreviousMessage # <<>>
                    /\ msg.PreviousMessage[1].ToNode = "") =>
                   Names(msg.PreviousMessage[1].FileName,
                         msg.PreviousMessage[1].Directory,
                         msg.FromNode)
            /\ (msg.PreviousMessage # <<>>
                    /\ dataFolder = "data"
                    /\ msg.PreviousMessage[1].ToNode = "ship1"
                    /\ msg.PreviousMessage[1].Directory = "foo"
                    /\ msg.PreviousMessage[1].FileName = "bar.log") =>
                   /\ r.fileName = "bar.log"
                   /\ r.folderTree = "data/foo/ship1"

\* C29 witness: the naming of a reply on central to a request that was sent
\* to ship1 with directory foo and file name bar.log.
C29_Witness ==
    /\ fnOut # <<>>
    /\ fnIn[2] = "data"
    /\ fnIn[1].ToNode = "central"
    /\ fnIn[1].Directory = "dirm"
    /\ fnIn[1].PreviousMessage # <<>>
    /\ fnIn[1].PreviousMessage[1].ToNode = "ship1"
    /\ fnIn[1].PreviousMessage[1].Directory = "foo"
    /\ fnIn[1].PreviousMessage[1].FileName = "bar.log"
    /\ fnOut[1].folderTree = "data/foo/ship1"

\* C30: with the signature check on and the method REQCliCommand a message
\* is accepted exactly when ArgSignature is a signature over the joined
\* MethodArgs under the public key stored for its FromNode; otherwise the
\* result is true.
C30_SignatureOfFromNode ==
    sigOut # <<>> =>
        LET n == sigIn[1]
            msg == sigIn[2]
        IN  IF n.EnableSignatureCheck /\ msg.Method = "REQCliCommand"
            THEN sigOut[1] =
                     ed25519Verify(n.Keys[msg.FromNode],
                                   argsToString(msg.MethodArgs),
                                   msg.ArgSignature)
            ELSE sigOut[1] = TRUE

\* -------------------------------------------------------------------- ACL
\* The ACL schema of central (spec 4.G).  schemaMain.ACLMap is the set of
\* its (source, fromNode, command) entries; a source or fromNode can be a
\* node group (grp_nodes_*), a command a command group (grp_cmds_*).
NodeGroupNames == {"grp_nodes_ships", "grp_nodes_operators"}
CommandGroupNames == {"grp_cmds_commandset1"}
AclSources == {"ship101", "grp_nodes_ships"}
AclFromNodes == {"admin", "grp_nodes_operators"}
AclCommands == {"HORSE", "HEN", "grp_cmds_commandset1"}
NodeGroupMembers ==
    {<<"grp_nodes_ships", "ship100">>, <<"grp_nodes_ships", "ship101">>,
     <<"grp_nodes_operators", "operator1">>,
     <<"grp_nodes_operators", "operator2">>}
CommandGroupMembers ==
    {<<"grp_cmds_commandset1", "dmesg">>, <<"grp_cmds_commandset1", "date">>}

\* The order of the names that the sorted serialization goes by.
NameOrder ==
    <<"HEN", "HORSE", "admin", "date", "dmesg", "operator1", "operator2",
      "ship100", "ship101">>
Rank(x) == CHOOSE i \in 1..Len(NameOrder) : NameOrder[i] = x

\* An expansion that takes a group identifier for a name.
nodeAsSliceLiteral(x, ngm) == {x}
\* Generation, step 1: a node group stands for its members, any other name
\* for itself.
nodeAsSlice(x, ngm) ==
    IF x \in NodeGroupNames THEN {p[2] : p \in {q \in ngm : q[1] = x}} ELSE {x}
\* An expansion that takes a command group identifier for a command.
commandAsSliceLiteral(c, cgm) == {c}
\* Generation, step 1: a command group stands for its commands.
commandAsSlice(c, cgm) ==
    IF c \in CommandGroupNames THEN {p[2] : p \in {q \in cgm : q[1] = c}}
    ELSE {c}

\* Generation, step 2: the (fromNode, command) pairs of a destination node.
ACLsToConvert(n, acl, ngm, cgm) ==
    UNION {nodeAsSlice(t[2], ngm) \X commandAsSlice(t[3], cgm) :
              t \in {u \in acl : n \in nodeAsSlice(u[1], ngm)}}

\* A serialization that writes the keys in the order the map gives them.
SortedKeysUnsorted(keys) == keys
\* Generation, step 3: the keys of a map are serialized in sorted order.
SortedKeys(keys) == SortSeq(keys, LAMBDA a, b : Rank(a) < Rank(b))

\* The cbor encoding of the map of a node: its fromNodes, each with its
\* commands.  order is the order in which the map hands out its keys.
EncodeACL(pairs, order) ==
    LET froms == SortedKeys(SelectSeq(order, LAMBDA f : \E p \in pairs : p[1] = f))
    IN  [i \in 1..Len(froms) |->
            <<froms[i],
              SortedKeys(SelectSeq(order,
                                   LAMBDA c : <<froms[i], c>> \in pairs))>>]
\* sha256 of the encoded map.
HashOf(data) == <<"sha256", data>>

\* The orders in which a map over the names can hand out its keys.
IterOrders ==
    {NameOrder,
     [i \in 1..Len(NameOrder) |-> NameOrder[Len(NameOrder) + 1 - i]],
     <<"admin", "operator2", "HORSE", "dmesg", "operator1", "HEN", "date",
       "ship101", "ship100">>}

\* Generation: the encoded map and its hash for every node that has an
\* entry.
generateACLsForAllNodes(acl, ngm, cgm, order) ==
    LET dest == UNION {nodeAsSlice(t[1], ngm) : t \in acl}
        nodes == {n \in dest : ACLsToConvert(n, acl, ngm, cgm) # {}}
    IN  [n \in nodes |->
            LET data == EncodeACL(ACLsToConvert(n, acl, ngm, cgm), order)
            IN  [Data |-> data, Hash |-> HashOf(data)]]

\* A mutation of the schema: the new maps are stored and the ACLs of all
\* nodes are generated again.
aclMutate(op, acl, ngm, cgm) ==
    /\ aclOps < MaxAclOps
    /\ aclOps' = aclOps + 1
    /\ aclLast' = <<[op |-> op, before |-> aclMap]>>
    /\ aclMap' = acl
    /\ nodeGroupMap' = ngm
    /\ commandGroupMap' = cgm
    /\ \E order \in IterOrders :
           generatedACLsMap' = generateACLsForAllNodes(acl, ngm, cgm, order)
    /\ UNCHANGED <<procVars, regAux, readerVars, ingVars, pureVars, ctxVars,
                   quiVars>>

\* aclAdd(host, source, cmd)
aclAdd(s, f, c) ==
    aclMutate(<<"aclAdd", s, f, c>>, aclMap \cup {<<s, f, c>>},
              nodeGroupMap, commandGroupMap)

\* aclDeleteCommand(host, source, cmd)
aclDeleteCommand(s, f, c) ==
    aclMutate(<<"aclDeleteCommand", s, f, c>>, aclMap \ {<<s, f, c>>},
              nodeGroupMap, commandGroupMap)

\* A delete that removes the whole entry of the host.
DeleteSourceWholeHost(acl, s, f) == {t \in acl : t[1] # s}
\* The ACLMap without the entry [s][f].
DeleteSource(acl, s, f) == {t \in acl : ~(t[1] = s /\ t[2] = f)}

\* aclDeleteSource(host, source)
aclDeleteSource(s, f) ==
    aclMutate(<<"aclDeleteSource", s, f>>, DeleteSource(aclMap, s, f),
              nodeGroupMap, commandGroupMap)

\* groupNodesAddNode(ng, n)
groupNodesAddNode(g, n) ==
    aclMutate(<<"groupNodesAddNode", g, n>>, aclMap,
              nodeGroupMap \cup {<<g, n>>}, commandGroupMap)

\* groupNodesDeleteNode(ng, n)
groupNodesDeleteNode(g, n) ==
    aclMutate(<<"groupNodesDeleteNode", g, n>>, aclMap,
              nodeGroupMap \ {<<g, n>>}, commandGroupMap)

\* groupCommandsAddCommand(cg, c)
groupCommandsAddCommand(g, c) ==
    aclMutate(<<"groupCommandsAddCommand", g, c>>, aclMap,
              nodeGroupMap, commandGroupMap \cup {<<g, c>>})

\* groupCommandsDeleteCommand(cg, c)
groupCommandsDeleteCommand(g, c) ==
    aclMutate(<<"groupCommandsDeleteCommand", g, c>>, aclMap,
              nodeGroupMap, commandGroupMap \ {<<g, c>>})

InitACLSpec ==
    /\ InitProcesses(MaxDeliveries) /\ InitRegistry /\ InitReader(<<>>)
    /\ InitIngress /\ InitPure(<<>>, <<>>) /\ InitTrafficIdle
    /\ \E ngm \in {{}, NodeGroupMembers}, cgm \in {{}, CommandGroupMembers} :
           InitACL(ngm, cgm)
    /\ kind = CommandACK /\ nodeName = "central" /\ allowedReceivers = {"*"}
NextACL ==
    \/ \E s \in AclSources, f \in AclFromNodes, c \in AclCommands :
           aclAdd(s, f, c)
    \/ \E t \in aclMap : aclDeleteCommand(t[1], t[2], t[3])
    \/ \E t \in aclMap : aclDeleteSource(t[1], t[2])
    \/ \E p \in NodeGroupMembers : groupNodesAddNode(p[1], p[2])
    \/ \E p \in nodeGroupMap : groupNodesDeleteNode(p[1], p[2])
    \/ \E p \in CommandGroupMembers : groupCommandsAddCommand(p[1], p[2])
    \/ \E p \in commandGroupMap : groupCommandsDeleteCommand(p[1], p[2])
SpecACL == InitACLSpec /\ [][NextACL]_vars

\* ---------------------------------------------------------------- traffic
\* The messages that travel between the nodes once every subscriber is
\* online and every ACK message is acknowledged on its first attempt.  Every
\* node has its own s.newMessagesCh and one publisher process for every
\* subject it sends on; a sam waits on the channel of its node, the
\* publisher of its subject publishes it, the broker starts a
\* subscriberHandler goroutine on the node of the subscriber, and on an ACK
\* kind of subject the publisher gets the reply.  The broker does not fail
\* and every payload decodes; a sam has passed newSubjectAndMessage, so its
\* method is in the method table.  The value of the message ID is left out:
\* it does not decide where a message is.  On the channel of a node the sams
\* of one subject are equal and the sams of different subjects go to
\* different publishers, so the channel is kept as the bag of its sams, and
\* the handler goroutines as the bag of their states.
TrafficMethods == {"REQCliCommand", "REQHello"}

\* ProcessesStart, lines 89-97: the subscriber for the error log messages
\* is started on central for the node name "errorCentral"; every other
\* subscriber is started for the name of its own node.
SubscriberNode(subject) ==
    IF subject.ToNode = "errorCentral" THEN "central" ELSE subject.ToNode

\* The messages that wait on a channel, are with a publisher that has not
\* published them yet, or are with a handler goroutine.
RECURSIVE ChannelSum(_)
ChannelSum(nds) ==
    IF nds = {} THEN 0
    ELSE LET nd == CHOOSE x \in nds : TRUE
         IN  BagCardinality(quiCh[nd]) + ChannelSum(nds \ {nd})
InFlight ==
    ChannelSum(TrafficNodes) + BagCardinality(quiHandlers)
        + Cardinality({w \in quiWait :
                           w.pc \in {"assign", "publish", "subscribed"}})

\* The publisher w is at an access of s.processes that runs together with
\* an access of another publisher process of the same server, and one of
\* the two is the write of line 296: publishMessages reads the map at line
\* 290 and writes it at line 296 without s.mu.
TrafficMapRace(w) ==
    \E w2 \in quiWait :
        /\ w2.node = w.node
        /\ w2.sam.Subject # w.sam.Subject
        /\ w2.pc \in {"assign", "writeback"}
        /\ w.pc = "writeback" \/ w2.pc = "writeback"

\* An ingress source of central puts a message on s.newMessagesCh.
trafficIngress(mth, to) ==
    /\ "central" \notin quiFatal
    /\ quiIn < MaxMsgs
    /\ quiIn' = quiIn + 1
    /\ quiCh' = [quiCh EXCEPT !["central"] =
                    @ (+) SetToBag({newSubjectAndMessage(
                                  [ZeroMessage EXCEPT !.ToNode = to,
                                                      !.Method = mth,
                                                      !.FromNode = "central"]).sam})]
    /\ UNCHANGED <<quiHandlers, quiWait, quiFatal, quiErrQ, procVars, regAux,
                   readerVars, ingVars, pureVars, aclVars, ctxVars>>

\* publishMessages, line 288, for the publisher process of node nd for the
\* subject of the sam sm on the channel of nd: the publisher is at its
\* receive and takes the message.
trafficTake(nd, sm) ==
    /\ nd \notin quiFatal
    /\ BagIn(sm, quiCh[nd])
    /\ \A w \in quiWait : ~(w.node = nd /\ w.sam.Subject = sm.Subject)
    /\ quiCh' = [quiCh EXCEPT ![nd] = @ (-) SetToBag({sm})]
    /\ quiWait' = quiWait \cup
                   {[node |-> nd, sam |-> sm, pc |-> "assign", reply |-> <<>>]}
    /\ UNCHANGED <<quiIn, quiHandlers, quiFatal, quiErrQ, procVars, regAux,
                   readerVars, ingVars, pureVars, aclVars, ctxVars>>

\* publishMessages, lines 289-290, for the publisher w: the read of
\* s.processes[pn] without s.mu.  When it runs together with the write of
\* another publisher the runtime may end the server with a fatal error.
trafficAssignID(w) ==
    /\ w \in quiWait
    /\ w.node \notin quiFatal
    /\ w.pc = "assign"
    /\ \/ /\ quiWait' = (quiWait \ {w}) \cup {[w EXCEPT !.pc = "publish"]}
          /\ UNCHANGED quiFatal
       \/ /\ TrafficMapRace(w)
          /\ quiFatal' = quiFatal \cup {w.node}
          /\ UNCHANGED quiWait
    /\ UNCHANGED <<quiIn, quiCh, quiHandlers, quiErrQ, procVars, regAux,
                   readerVars, ingVars, pureVars, aclVars, ctxVars>>

\* messageDeliverNats, lines 112-135, for the publisher w: SubscribeSync
\* on the reply subject.  The name of the reply subject is made of the name
\* of the subject alone, so from here on the broker queues for w every
\* reply that is published for a message of that subject, from any node.
trafficSubscribeSync(w) ==
    /\ w \in quiWait
    /\ w.node \notin quiFatal
    /\ w.pc = "publish"
    /\ quiWait' = (quiWait \ {w}) \cup {[w EXCEPT !.pc = "subscribed"]}
    /\ UNCHANGED <<quiIn, quiCh, quiHandlers, quiFatal, quiErrQ, procVars,
                   regAux, readerVars, ingVars, pureVars, aclVars, ctxVars>>

\* messageDeliverNats, lines 137-147, for the publisher w: PublishMsg; the
\* broker starts a subscriberHandler goroutine for the message; on an ACK
\* kind of subject the publisher waits for the reply, else
\* messageDeliverNats returns.
trafficPublish(w) ==
    /\ w \in quiWait
    /\ w.node \notin quiFatal
    /\ w.pc = "subscribed"
    /\ quiHandlers' = quiHandlers (+) SetToBag({[sam |-> w.sam, pc |-> "start"]})
    /\ quiWait' = (quiWait \ {w}) \cup
                   {[w EXCEPT !.pc = IF WaitsForReply(w.sam.Subject.Event)
                                     THEN "wait" ELSE "done"]}
    /\ UNCHANGED <<quiIn, quiCh, quiFatal, quiErrQ, procVars, regAux,
                   readerVars, ingVars, pureVars, aclVars, ctxVars>>

\* subscriberHandler, lines 189-236 and 244-264, for a goroutine in the
\* state h, in the subscriber process of the subject of its message.  On an ACK
\* kind of subject the handler is called when the sender is allowed and the
\* reply is published on the reply subject, where the broker queues it for
\* every publisher that has a reply subscription for that subject, whether
\* it has published its own message yet or not (w.reply is the first reply
\* that was queued for w, the one its NextMsg returns); on a NACK kind of
\* subject the handler is called and the goroutine returns.
trafficHandle(h) ==
    /\ BagIn(h, quiHandlers)
    /\ SubscriberNode(h.sam.Subject) \notin quiFatal
    /\ h.pc = "start"
    /\ LET sam == h.sam
           out == IF AllowedFrom(allowedReceivers, sam.Message.FromNode)
                  THEN <<"out">>
                  ELSE NotAllowedPayload(sam.Message.FromNode)
       IN  IF IsACK(sam.Subject.Event)
           THEN /\ quiWait' =
                       {IF w.sam.Subject = sam.Subject
                             /\ w.pc \in {"subscribed", "wait"}
                             /\ w.reply = <<>>
                        THEN [w EXCEPT !.reply = <<out>>] ELSE w :
                           w \in quiWait}
                /\ quiHandlers' = (quiHandlers (-) SetToBag({h}))
                                       (+) SetToBag({[h EXCEPT !.pc = "errlog"]})
           ELSE /\ quiHandlers' = quiHandlers (-) SetToBag({h})
                /\ UNCHANGED quiWait
    /\ UNCHANGED <<quiIn, quiCh, quiFatal, quiErrQ, procVars, regAux,
                   readerVars, ingVars, pureVars, aclVars, ctxVars>>

\* subscriberHandler, lines 238-243, for a goroutine in the state h:
\* sendErrorLogMessage puts an error log message of the node of the
\* subscriber on the s.newMessagesCh of that node, and the goroutine
\* returns.
trafficErrorLog(h) ==
    /\ BagIn(h, quiHandlers)
    /\ SubscriberNode(h.sam.Subject) \notin quiFatal
    /\ h.pc = "errlog"
    /\ LET thisNode == SubscriberNode(h.sam.Subject)
       IN  quiCh' = [quiCh EXCEPT ![thisNode] =
                        @ (+) SetToBag({ErrorLogSAM(thisNode)})]
    /\ quiHandlers' = quiHandlers (-) SetToBag({h})
    /\ UNCHANGED <<quiIn, quiWait, quiFatal, quiErrQ, procVars, regAux,
                   readerVars, ingVars, pureVars, aclVars, ctxVars>>

\* messageDeliverNats, lines 151 and 171-173, for the publisher w: NextMsg
\* returns the reply that is queued and messageDeliverNats returns.
trafficNextMsg(w) ==
    /\ w \in quiWait
    /\ w.node \notin quiFatal
    /\ w.pc = "wait"
    /\ w.reply # <<>>
    /\ quiWait' = (quiWait \ {w}) \cup {[w EXCEPT !.pc = "done"]}
    /\ UNCHANGED <<quiIn, quiCh, quiHandlers, quiFatal, quiErrQ, procVars,
                   regAux, readerVars, ingVars, pureVars, aclVars, ctxVars>>

\* publishMessages, line 292, for the publisher w: the done signal for the
\* message that messageDeliverNats has returned from.
trafficPublishDone(w) ==
    /\ w \in quiWait
    /\ w.node \notin quiFatal
    /\ w.pc = "done"
    /\ quiWait' = (quiWait \ {w}) \cup {[w EXCEPT !.pc = "writeback"]}
    /\ UNCHANGED <<quiIn, quiCh, quiHandlers, quiFatal, quiErrQ, procVars,
                   regAux, readerVars, ingVars, pureVars, aclVars, ctxVars>>

\* publishMessages, lines 295-297, for the publisher w: p.messageID++ and
\* the write s.processes[pn] = p without s.mu.  When it runs together with
\* the read or the write of another publisher the runtime may end the
\* server with a fatal error.
trafficWriteBack(w) ==
    /\ w \in quiWait
    /\ w.node \notin quiFatal
    /\ w.pc = "writeback"
    /\ \/ /\ quiWait' = (quiWait \ {w}) \cup {[w EXCEPT !.pc = "errkernel"]}
          /\ UNCHANGED quiFatal
       \/ /\ TrafficMapRace(w)
          /\ quiFatal' = quiFatal \cup {w.node}
          /\ UNCHANGED quiWait
    /\ UNCHANGED <<quiIn, quiCh, quiHandlers, quiErrQ, procVars, regAux,
                   readerVars, ingVars, pureVars, aclVars, ctxVars>>

\* publishMessages, lines 299-307, for the publisher w: the errProcess is
\* made and the publisher blocks in the send on s.errorKernel.errorCh,
\* behind the publishers of its server that block there already.
trafficErrorSend(w) ==
    /\ w \in quiWait
    /\ w.node \notin quiFatal
    /\ w.pc = "errkernel"
    /\ quiWait' = (quiWait \ {w}) \cup {[w EXCEPT !.pc = "errsent"]}
    /\ quiErrQ' = [quiErrQ EXCEPT ![w.node] = Append(@, w.sam.Subject)]
    /\ UNCHANGED <<quiIn, quiCh, quiHandlers, quiFatal, procVars, regAux,
                   readerVars, ingVars, pureVars, aclVars, ctxVars>>

\* The error kernel of node nd, one goroutine that drains errorCh: it
\* receives the errProcess of the publisher that has waited longest, logs
\* it, and emits an error log message for the central error node on the
\* s.newMessagesCh of its node; the emission is best effort and may fail,
\* and it succeeds only while fewer than MaxFlight messages are in flight.
\* The kernel then offers errActionContinue on the errorActionCh.
trafficErrorKernel(nd, emitted) ==
    /\ nd \notin quiFatal
    /\ quiErrQ[nd] # <<>>
    /\ \E w \in quiWait :
           /\ w.node = nd
           /\ w.sam.Subject = Head(quiErrQ[nd])
           /\ w.pc = "errsent"
           /\ quiWait' = (quiWait \ {w}) \cup {[w EXCEPT !.pc = "erraction"]}
    /\ IF emitted
       THEN /\ InFlight < MaxFlight
            /\ quiCh' = [quiCh EXCEPT ![nd] = @ (+) SetToBag({ErrorLogSAM(nd)})]
       ELSE UNCHANGED quiCh
    /\ UNCHANGED <<quiIn, quiHandlers, quiFatal, quiErrQ, procVars, regAux,
                   readerVars, ingVars, pureVars, aclVars, ctxVars>>

\* publishMessages, lines 309-315, for the publisher w: the action is
\* received from the error kernel, which is free for the next errProcess,
\* and the publisher is at its receive again.
trafficErrorAction(w) ==
    /\ w \in quiWait
    /\ w.node \notin quiFatal
    /\ w.pc = "erraction"
    /\ quiWait' = quiWait \ {w}
    /\ quiErrQ' = [quiErrQ EXCEPT ![w.node] = Tail(@)]
    /\ UNCHANGED <<quiIn, quiCh, quiHandlers, quiFatal, procVars, regAux,
                   readerVars, ingVars, pureVars, aclVars, ctxVars>>

\* The sams of the traffic: those of the ingress, and the error log sams
\* of the nodes.
TrafficSams ==
    {newSubjectAndMessage([ZeroMessage EXCEPT !.ToNode = to, !.Method = mth,
                                              !.FromNode = "central"]).sam :
        mth \in TrafficMethods, to \in TrafficNodes \ {"central"}}
        \cup {ErrorLogSAM(nd) : nd \in TrafficNodes}

\* publishMessages, lines 285-316: the steps of the publisher process of
\* node nd for the subject of sm.
trafficPublisher(nd, sm) ==
    \/ trafficTake(nd, sm)
    \/ \E w \in quiWait :
           /\ w.node = nd
           /\ w.sam.Subject = sm.Subject
           /\ \/ trafficAssignID(w)
              \/ trafficSubscribeSync(w)
              \/ trafficPublish(w)
              \/ trafficNextMsg(w)
              \/ trafficPublishDone(w)
              \/ trafficWriteBack(w)
              \/ trafficErrorSend(w)
              \/ trafficErrorAction(w)
\* The steps of the handler goroutines for the deliveries of sm.
trafficSubscriber(sm) ==
    \/ trafficHandle([sam |-> sm, pc |-> "start"])
    \/ trafficErrorLog([sam |-> sm, pc |-> "errlog"])

InitTraffic ==
    /\ InitProcesses(MaxDeliveries) /\ InitRegistry /\ InitReader(<<>>)
    /\ InitIdle
    /\ kind = CommandACK /\ nodeName = "central"
NextTraffic ==
    \/ \E mth \in TrafficMethods : \E to \in TrafficNodes \ {"central"} :
           trafficIngress(mth, to)
    \/ \E nd \in TrafficNodes : \E sm \in TrafficSams : trafficPublisher(nd, sm)
    \/ \E sm \in TrafficSams : trafficSubscriber(sm)
    \/ \E nd \in TrafficNodes : \E emitted \in BOOLEAN :
           trafficErrorKernel(nd, emitted)
\* Every goroutine that can take a step takes it at some time.
SpecTraffic ==
    /\ InitTraffic /\ [][NextTraffic]_vars
    /\ \A sm \in TrafficSams :
           /\ WF_vars(trafficSubscriber(sm))
           /\ \A nd \in TrafficNodes : WF_vars(trafficPublisher(nd, sm))
    /\ \A nd \in TrafficNodes :
           WF_vars(\E emitted \in BOOLEAN : trafficErrorKernel(nd, emitted))

\* --------------------------------------------------- claims C31 to C34
\* The members a name of the schema stands for, and whether the generated
\* map of node n has the command c under the fromNode f.
MembersOf(x) ==
    IF x \in NodeGroupNames
    THEN {n \in {"ship100", "ship101", "operator1", "operator2"} :
             <<x, n>> \in nodeGroupMap}
    ELSE {x}
CommandsOf(c) ==
    IF c \in CommandGroupNames
    THEN {k \in {"dmesg", "date"} : <<c, k>> \in commandGroupMap}
    ELSE {c}
Allows(n, f, c) ==
    /\ n \in DOMAIN generatedACLsMap
    /\ \E i \in 1..Len(generatedACLsMap[n].Data) :
           /\ generatedACLsMap[n].Data[i][1] = f
           /\ \E j \in 1..Len(generatedACLsMap[n].Data[i][2]) :
                  generatedACLsMap[n].Data[i][2][j] = c

\* C31: the generated map of a node has, under each fromNode, every command
\* that is in the ACL map for the node itself and every command that is in
\* it for a node group the node is a member of.
C31_DirectAndGroupCommands ==
    \A t \in aclMap :
        (t[2] \notin NodeGroupNames /\ t[3] \notin CommandGroupNames) =>
            \A n \in {"ship100", "ship101"} :
                (t[1] = n \/ <<t[1], n>> \in nodeGroupMap) =>
                    Allows(n, t[2], t[3])

\* C31 witness: ship101 has HORSE under admin from its own entry and HEN
\* under admin from the entry of the group grp_nodes_ships.
C31_Witness ==
    /\ aclMap = {<<"ship101", "admin", "HORSE">>,
                 <<"grp_nodes_ships", "admin", "HEN">>}
    /\ Allows("ship101", "admin", "HORSE")
    /\ Allows("ship101", "admin", "HEN")

\* C32: every group of an entry is expanded to its members: each node of
\* the source gets each command of the command under each node of the
\* fromNode, and no generated map has a group identifier as a key.
C32_GroupsExpanded ==
    /\ \A t \in aclMap :
           \A n \in MembersOf(t[1]), f \in MembersOf(t[2]),
              c \in CommandsOf(t[3]) : Allows(n, f, c)
    /\ \A n \in DOMAIN generatedACLsMap :
           /\ n \notin NodeGroupNames
           /\ \A i \in 1..Len(generatedACLsMap[n].Data) :
                  /\ generatedACLsMap[n].Data[i][1] \notin NodeGroupNames
                  /\ \A j \in 1..Len(generatedACLsMap[n].Data[i][2]) :
                         generatedACLsMap[n].Data[i][2][j]
                             \notin CommandGroupNames

\* C32 witness: from the entry (grp_nodes_ships, grp_nodes_operators,
\* grp_cmds_commandset1) alone ship101 has dmesg and date under operator1
\* and under operator2.
C32_Witness ==
    /\ aclMap = {<<"grp_nodes_ships", "grp_nodes_operators",
                   "grp_cmds_commandset1">>}
    /\ \A f \in {"operator1", "operator2"}, c \in {"dmesg", "date"} :
           Allows("ship101", f, c)

\* C33: aclAdd makes its entry present, aclDeleteCommand removes its entry
\* and no other, aclDeleteSource removes the entries of its source and
\* fromNode and no other.
C33_DeleteExactly ==
    aclLast # <<>> =>
        LET op == aclLast[1].op
            before == aclLast[1].before
        IN  /\ op[1] = "aclAdd" =>
                   aclMap = before \cup {<<op[2], op[3], op[4]>>}
            /\ op[1] = "aclDeleteCommand" =>
                   /\ <<op[2], op[3], op[4]>> \notin aclMap
                   /\ \A t \in before :
                          t # <<op[2], op[3], op[4]>> => t \in aclMap
                   /\ aclMap \subseteq before
            /\ op[1] = "aclDeleteSource" =>
                   /\ \A t \in aclMap : ~(t[1] = op[2] /\ t[2] = op[3])
                   /\ \A t \in before :
                          ~(t[1] = op[2] /\ t[2] = op[3]) => t \in aclMap
                   /\ aclMap \subseteq before

\* C33 witness: aclDeleteSource has removed the entry of one fromNode of a
\* source and the entry of another fromNode of that source is still there.
C33_Witness ==
    /\ aclLast # <<>>
    /\ aclLast[1].op[1] = "aclDeleteSource"
    /\ aclMap # aclLast[1].before
    /\ \E t \in aclMap : t[1] = aclLast[1].op[2]

\* The (fromNode, command) pairs of a node by the schema as it is now, and
\* their serialization with the keys in sorted order.
PairsOf(n) ==
    {p \in {"admin", "operator1", "operator2"}
             \X {"HORSE", "HEN", "dmesg", "date"} :
        \E t \in aclMap :
            /\ n \in MembersOf(t[1])
            /\ p[1] \in MembersOf(t[2])
            /\ p[2] \in CommandsOf(t[3])}
Canonical(pairs) ==
    LET fs == SelectSeq(NameOrder, LAMBDA f : \E p \in pairs : p[1] = f)
    IN  [i \in 1..Len(fs) |->
            <<fs[i], SelectSeq(NameOrder, LAMBDA c : <<fs[i], c>> \in pairs)>>]

\* C34: Data and Hash of every node are a function of the ACL entries and
\* the group memberships as they are now, whatever calls have led to them
\* and in whatever order the maps were walked.
C34_GeneratedIsFunctionOfSchema ==
    /\ DOMAIN generatedACLsMap =
           {n \in {"ship100", "ship101"} : PairsOf(n) # {}}
    /\ \A n \in DOMAIN generatedACLsMap :
           /\ generatedACLsMap[n].Data = Canonical(PairsOf(n))
           /\ generatedACLsMap[n].Hash =
                  <<"sha256", Canonical(PairsOf(n))>>

\* C34 witness: the generated map of ship101 has two fromNodes, one of them
\* with two commands, after an entry has been deleted again.
C34_Witness ==
    /\ "ship101" \in DOMAIN generatedACLsMap
    /\ Len(generatedACLsMap["ship101"].Data) = 2
    /\ Len(generatedACLsMap["ship101"].Data[1][2]) = 2
    /\ aclLast # <<>>
    /\ aclLast[1].op[1] = "aclDeleteCommand"

\* --------------------------------------------------- claims C35 to C37
\* C35: once the context of the publisher worker has been cancelled while
\* the worker was blocked, the worker does nothing more: it takes no
\* message, publishes nothing, and it sends no done signal for the message
\* that was in flight, whose record stays persisted.
C35_CancelLeavesMessage ==
    ctxDone =>
        /\ ctxAt.pc = "recv" => pc = "recv"
        /\ Len(published) = ctxAt.published
        /\ ctxAt.n # 0 =>
               /\ ctxAt.n \in kv
               /\ \A j \in 1..Len(doneLog) : doneLog[j] # ctxAt.n

\* C36: every message whose delivery loop has returned gets exactly one
\* done signal before the publisher takes the next message, no message
\* gets two, and none gets one before its delivery loop has returned.
C36_OneDonePerMessage ==
    /\ \A i, j \in 1..Len(doneLog) : doneLog[i] = doneLog[j] => i = j
    /\ \A i \in 1..Len(doneLog) :
           \E j \in 1..Len(result) : result[j].n = doneLog[i]
    /\ \A j \in 1..Len(result) :
           (pc \notin {"done"} \/ m.n # result[j].n) =>
               \E i \in 1..Len(doneLog) : doneLog[i] = result[j].n
    /\ pc \in {"loop", "publish", "wait", "done"} =>
           \A j \in 1..Len(result) :
               result[j].n # m.n =>
                   \E i \in 1..Len(doneLog) : doneLog[i] = result[j].n

\* C36 witness: the second message is being delivered, the first one was
\* given up after its retries and has got its done signal.
C36_Witness ==
    /\ pc = "wait"
    /\ m.n = 2
    /\ doneLog = <<1>>
    /\ Len(result) = 1
    /\ result[1].how = "maxretries"

\* C37: the reply the publisher accepts as the ACK of a message was
\* published by a subscriber in response to a delivery of that message.
C37_ReplyBelongsToMessage ==
    \A j \in 1..Len(result) :
        result[j].how = "ack" => result[j].reply.n = result[j].n

\* ---------------------------------------------------------- claim C38
\* No message is in flight: none waits on the s.newMessagesCh of a node,
\* no handler goroutine is pending and no publisher is delivering.
Quiet ==
    /\ \A nd \in TrafficNodes : quiCh[nd] = EmptyBag
    /\ quiHandlers = EmptyBag
    /\ quiWait = {}
\* Every server runs: none was ended by the runtime, so every subscriber
\* is online.
AllOnline == quiFatal = {}

\* C38: with every subscriber online and every message acknowledged on its
\* first attempt, the traffic that a finite number of ingress messages
\* causes ends: from some time on no message is in flight, unless a server
\* has ended and its subscribers are not online.
C38_TrafficQuiesces == <>[](Quiet \/ ~AllOnline)

\* ---------------------------------------------------------- claim C39
\* C39: the loop of readStartupFolder that removes the messages without
\* FromNode reads no index beyond the current length of the list, whatever
\* the messages of the file are.
C39_FilterIndexInBounds == ingOp = "readStartupFolder" => ~ingPanic

\* ---------------------------------------------------------- claim C40
\* C40: a signature that verifySignature accepts for a REQCliCommand
\* message was made over the argument list of that message: a signature
\* made for one argument list is not accepted for another one.
C40_SignatureBindsArgs ==
    (sigOut # <<>> /\ sigIn[1].EnableSignatureCheck
         /\ sigIn[2].Method = "REQCliCommand" /\ sigOut[1]) =>
        /\ sigIn[3] # <<>>
        /\ sigIn[3][1].args = sigIn[2].MethodArgs

====
